---- MODULE Spec2Model ----
(***************************************************************************)
(* A model of the go-spring/log event pipeline: level ranges, appender     *)
(* references, the synchronous loggers, the asynchronous logger with its   *)
(* bounded queue, worker goroutine and buffer-full policies, and the       *)
(* one-shot configuration refresh (RefreshConfig / Destroy).               *)
(*                                                                         *)
(* Two subsystems share the module.  Spec is the logger pipeline: one      *)
(* logger instance, a set of producer goroutines calling Append / Write,   *)
(* the worker goroutine and the goroutine that calls Stop.  SpecRefresh is *)
(* the global configuration state driven by RefreshConfig and Destroy.     *)
(* SpecRoute is the tag binding loop over given tag tables, SpecRolling    *)
(* the rolling file appender, SpecRecord the record calls on a tag bound   *)
(* to a SyncLogger with a re-entrant appender, SpecStop the async logger   *)
(* stopped while producers are in onBufferFull, and SpecBusy the async     *)
(* logger with producers that publish without end.                         *)
(***************************************************************************)
EXTENDS Integers, Sequences, FiniteSets, TLC

(***************************************************************************)
(* Bounds of the model.                                                    *)
(***************************************************************************)
\* number of producer goroutines calling Append / Write on the logger
NumProducers == 2
\* number of Append / Write calls each producer makes
MaxOps == 2
\* capacity of the buffered channel c.buf as the model builds it.  The code
\* makes it with BufferSize >= MinBufferSize slots; the policies only tell
\* "full" from "not full", so a small capacity drives the same branches.
QueueCap == 2
\* number of goroutines that call RefreshConfig
NumRefreshers == 2
\* number of RefreshConfig calls each of them makes
MaxCalls == 1
\* number of Destroy calls the model makes
MaxDestroys == 2
\* number of rotation slots the clock of the rolling file appender passes
MaxSlots == 3
\* number of Write calls made on the rolling file appender
MaxWrites == 3
\* number of record calls the application makes
MaxRecords == 2
\* depth at which the re-entrant appender stops logging from its Append
MaxDepth == 3
\* value at which the discard counter of the never-ending producers wraps
CounterWrap == 3

(***************************************************************************)
(* Levels (log_level.go).                                                  *)
(***************************************************************************)
NoneLevel == 0
TraceLevel == 100
DebugLevel == 200
InfoLevel == 300
WarnLevel == 400
ErrorLevel == 500
PanicLevel == 600
FatalLevel == 700
MaxLevel == 999

\* LevelRange{MinLevel, MaxLevel}
LevelRange(lo, hi) == [MinLevel |-> lo, MaxLevel |-> hi]

\* Enable with the upper bound taken as inclusive
EnableInclusive(c, l) == l >= c.MinLevel /\ l <= c.MaxLevel

\* func (c LevelRange) Enable(l Level) bool
Enable(c, l) == l >= c.MinLevel /\ l < c.MaxLevel

(***************************************************************************)
(* BufferFullPolicy.                                                       *)
(***************************************************************************)
BufferFullPolicyBlock == 0
BufferFullPolicyDiscard == 1
BufferFullPolicyDiscardOldest == 2
Policies == {BufferFullPolicyBlock, BufferFullPolicyDiscard, BufferFullPolicyDiscardOldest}

\* AsyncLogger.Start rejects a BufferSize below this.
MinBufferSize == 100

(***************************************************************************)
(* Items: pooled events and raw byte slices.                               *)
(***************************************************************************)
Producers == 1..NumProducers

\* the levels of the events the producers publish
EventLevels == {DebugLevel, InfoLevel, ErrorLevel}

\* the level ranges a logger is configured with
LoggerLevels == {LevelRange(NoneLevel, MaxLevel), LevelRange(InfoLevel, ErrorLevel)}

\* the logger types registered as plugins
LoggerKinds == {"Sync", "Async", "Console", "File", "Discard"}

\* the n-th item producer p passes to the logger
NewEvent(p, n, l) == [id |-> <<p, n>>, kind |-> "event", level |-> l]
NewBytes(p, n) == [id |-> <<p, n>>, kind |-> "bytes", level |-> NoneLevel]

\* c.stop = &Event{}: the marker event of the async logger
StopEvent == [id |-> <<0, 0>>, kind |-> "event", level |-> NoneLevel]

ItemIds == (Producers \X (1..MaxOps)) \cup {<<0, 0>>}

\* the appenders of the configuration, and the appender a Console / File
\* logger embeds
AppenderNames == {"a1", "a2"}
SinkNames == AppenderNames \cup {"own"}

VARIABLES
    kind,            \* the logger's type
    Level,           \* LoggerBase.Level
    Layout,          \* LoggerBase.Layout /= nil
    AppenderRefs,    \* AppenderRefs.AppenderRefs, as sortByLevel left them
    BufferSize,      \* AsyncLogger.BufferSize
    BufferFullPolicy,\* AsyncLogger.BufferFullPolicy
    started,         \* "new", "started", "failed": the outcome of Start
    buf,             \* c.buf: the buffered channel's contents
    closed,          \* close(c.buf) has run
    workerPc,        \* "none", "run", "exited" (c.wait closed)
    discardCounter,  \* c.discardCounter
    prodPc,          \* per producer: "idle", "full", "drop", "send"
    prodItem,        \* per producer: the item of the call in progress
    prodCount,       \* per producer: calls begun
    stopPc,          \* "idle", "send", "wait", "done": position in Stop
    sink,            \* per appender: what it has been handed, in order
    released,        \* per event id: number of PutEvent calls
    handed,          \* history: the items passed to Append / Write
    forwarded,       \* history: ids of events that passed the level check
    entered,         \* history: the items in the order they entered c.buf
    dispatched,       \* history: the items the worker took and dispatched, in order
    atStop,          \* history: c.buf when Stop was called
    dropped          \* history: items a buffer-full policy discarded

pipeVars == <<kind, Level, Layout, AppenderRefs, BufferSize, BufferFullPolicy,
              started, buf, closed, workerPc, discardCounter, prodPc, prodItem,
              prodCount, stopPc, sink, released, handed, forwarded, entered,
              dispatched, atStop, dropped>>

(***************************************************************************)
(* Appenders and appender references.                                      *)
(***************************************************************************)
\* Layout.ToBytes(e): the event rendered to a line of bytes
ToBytes(e) == [id |-> e.id, form |-> "rendered"]

\* Appender.Append(e): the appender renders the event with its own layout
\* and writes the line
AppenderAppend(s, name, e) == [s EXCEPT ![name] = Append(@, [id |-> e.id, form |-> "event"])]

\* Appender.Write(b)
AppenderWrite(s, name, b) == [s EXCEPT ![name] = Append(@, b)]

\* func (c *AppenderRef) Append(e *Event)
AppenderRefAppend(s, r, e) == IF Enable(r.Level, e.level) THEN AppenderAppend(s, r.Ref, e) ELSE s

\* func (c *AppenderRef) Write(b []byte)
AppenderRefWrite(s, r, b) == AppenderWrite(s, r.Ref, b)

RECURSIVE sendToAppenders(_, _, _)
\* func (c *AppenderRefs) sendToAppenders(e *Event)
sendToAppenders(s, refs, e) ==
    IF refs = <<>> THEN s
    ELSE LET r == Head(refs)
             s1 == IF Enable(r.Level, e.level) THEN AppenderRefAppend(s, r, e) ELSE s
         IN sendToAppenders(s1, Tail(refs), e)

RECURSIVE writeToAppenders(_, _, _, _)
\* func (c *AppenderRefs) writeToAppenders(l Level, b []byte)
writeToAppenders(s, refs, l, b) ==
    IF refs = <<>> THEN s
    ELSE LET r == Head(refs)
             s1 == IF Enable(r.Level, l) THEN AppenderRefWrite(s, r, b) ELSE s
         IN writeToAppenders(s1, Tail(refs), l, b)

\* the raw form of a byte slice passed to Write
RawBytes(b) == [id |-> b.id, form |-> "raw"]

\* the permutations of a sequence that are ordered by MinLevel (sort.Slice
\* is not stable: refs of equal MinLevel may come out in any order)
SortedByMin(refs) ==
    {q \in [1..Len(refs) -> 1..Len(refs)] :
        /\ \A i, j \in 1..Len(refs) : i /= j => q[i] /= q[j]
        /\ \A i \in 1..Len(refs) : \A j \in 1..Len(refs) :
              i < j => refs[q[i]].Level.MinLevel <= refs[q[j]].Level.MinLevel}

RECURSIVE Chain(_, _)
\* the loop of sortByLevel: for i from len-1 down to 1, a ref whose MaxLevel
\* is MAX takes the next ref's MinLevel as its MaxLevel
Chain(refs, i) ==
    IF i < 1 THEN refs
    ELSE LET r == IF refs[i].Level.MaxLevel = MaxLevel
                  THEN SubSeq(refs, 1, i - 1)
                       \o <<[refs[i] EXCEPT !.Level.MaxLevel = refs[i + 1].Level.MinLevel]>>
                       \o SubSeq(refs, i + 1, Len(refs))
                  ELSE refs
         IN Chain(r, i - 1)

\* a sort that leaves the upper bounds as configured
sortOnly(refs) ==
    {[i \in 1..Len(refs) |-> refs[q[i]]] : q \in SortedByMin(refs)}

\* func (c *AppenderRefs) sortByLevel(): the set of outcomes
sortByLevel(refs) ==
    {Chain([i \in 1..Len(refs) |-> refs[q[i]]], Len(refs) - 1) : q \in SortedByMin(refs)}

\* the appender-ref list of the logger the model runs, as configured: the
\* errors go to a2, everything to a1 (whose range sortByLevel then cuts)
RefConfigs ==
    { << [Ref |-> "a2", Level |-> LevelRange(ErrorLevel, MaxLevel)],
         [Ref |-> "a1", Level |-> LevelRange(NoneLevel, MaxLevel)] >> }

(***************************************************************************)
(* The event pool.                                                         *)
(***************************************************************************)
\* PutEvent(e): the event goes back to the pool
PutEvent(rel, e) == [rel EXCEPT ![e.id] = @ + 1]

\* the `if e, ok := x.(*Event); ok { PutEvent(e) }` of onBufferFull
PutIfEvent(rel, x) == IF x.kind = "event" THEN PutEvent(rel, x) ELSE rel

(***************************************************************************)
(* The channel c.buf.                                                      *)
(***************************************************************************)
NoItem == [id |-> <<0, 0>>, kind |-> "none", level |-> NoneLevel]

\* a send that puts the value at the head of the queue instead of the tail
ChanSendFront(q, v) == <<v>> \o q

\* `c.buf <- v` once it proceeds: the value joins the tail of the queue
ChanSend(q, v) == Append(q, v)

\* whether a send on c.buf can proceed
ChanReady(q) == Len(q) < QueueCap

(***************************************************************************)
(* The loggers.                                                            *)
(***************************************************************************)
cfgVars == <<kind, Level, Layout, AppenderRefs, BufferSize, BufferFullPolicy>>
chanVars == <<buf, closed, workerPc, discardCounter, entered, dispatched, atStop, dropped>>

\* a dispatch that passes the rendered event on at MaxLevel, as Write does
\* with raw bytes
DispatchEventAtMax(s, e) ==
    IF ~Layout THEN sendToAppenders(s, AppenderRefs, e)
    ELSE writeToAppenders(s, AppenderRefs, MaxLevel, ToBytes(e))

\* what a logger with AppenderRefs does with an event that passed its level
\* check: `if c.Layout == nil { sendToAppenders } else { writeToAppenders }`
DispatchEvent(s, e) ==
    IF ~Layout THEN sendToAppenders(s, AppenderRefs, e)
    ELSE writeToAppenders(s, AppenderRefs, e.level, ToBytes(e))

\* Write of a logger with AppenderRefs: c.writeToAppenders(MaxLevel, b)
DispatchBytes(s, b) == writeToAppenders(s, AppenderRefs, MaxLevel, RawBytes(b))

\* func (c *SyncLogger) Append(e *Event)
SyncLoggerAppend(e) ==
    /\ IF Enable(Level, e.level)
       THEN /\ sink' = DispatchEvent(sink, e)
            /\ forwarded' = forwarded \cup {e.id}
       ELSE UNCHANGED <<sink, forwarded>>
    /\ released' = PutEvent(released, e)
    /\ UNCHANGED <<chanVars, prodPc, prodItem>>

\* func (c *SyncLogger) Write(b []byte)
SyncLoggerWrite(b) ==
    /\ sink' = DispatchBytes(sink, b)
    /\ UNCHANGED <<chanVars, prodPc, prodItem, released, forwarded>>

\* func (c *ConsoleLogger) Append(e *Event), func (c *FileLogger) Append(e *Event)
ConsoleLoggerAppend(e) ==
    /\ IF Enable(Level, e.level)
       THEN /\ sink' = AppenderAppend(sink, "own", e)
            /\ forwarded' = forwarded \cup {e.id}
       ELSE UNCHANGED <<sink, forwarded>>
    /\ UNCHANGED <<chanVars, prodPc, prodItem, released>>

\* Write of a Console / File logger: the embedded appender's Write
ConsoleLoggerWrite(b) ==
    /\ sink' = AppenderWrite(sink, "own", RawBytes(b))
    /\ UNCHANGED <<chanVars, prodPc, prodItem, released, forwarded>>

\* Append and Write of a DiscardLogger: the embedded DiscardAppender's no-ops
DiscardLoggerAppend(e) ==
    UNCHANGED <<chanVars, prodPc, prodItem, released, forwarded, sink>>

\* the `select { case c.buf <- v: default: c.onBufferFull(v) }` of Append
\* and Write
TrySend(p, v) ==
    IF ChanReady(buf)
    THEN /\ buf' = ChanSend(buf, v)
         /\ entered' = Append(entered, v)
         /\ UNCHANGED <<prodPc, prodItem>>
    ELSE /\ prodPc' = [prodPc EXCEPT ![p] = "full"]
         /\ prodItem' = [prodItem EXCEPT ![p] = v]
         /\ UNCHANGED <<buf, entered>>

\* func (c *AsyncLogger) Append(e *Event)
AsyncLoggerAppend(p, e) ==
    /\ IF Enable(Level, e.level)
       THEN /\ TrySend(p, e)
            /\ forwarded' = forwarded \cup {e.id}
            /\ UNCHANGED released
       ELSE /\ released' = PutEvent(released, e)
            /\ UNCHANGED <<buf, entered, prodPc, prodItem, forwarded>>
    /\ UNCHANGED <<closed, workerPc, discardCounter, dispatched, atStop, dropped, sink>>

\* func (c *AsyncLogger) Write(b []byte)
AsyncLoggerWrite(p, b) ==
    /\ TrySend(p, b)
    /\ UNCHANGED <<closed, workerPc, discardCounter, dispatched, atStop, dropped,
                   sink, released, forwarded>>

\* the callers keep the lifecycle contract: a call is made on a started
\* logger and no call is made once Stop has been called
MayCall == started = "started" /\ stopPc = "idle"

\* a producer goroutine passes an event to the logger
LoggerAppend(p, l) ==
    /\ MayCall
    /\ prodPc[p] = "idle"
    /\ prodCount[p] < MaxOps
    /\ LET e == NewEvent(p, prodCount[p] + 1, l)
       IN /\ prodCount' = [prodCount EXCEPT ![p] = @ + 1]
          /\ handed' = handed \cup {e}
          /\ CASE kind = "Sync" -> SyncLoggerAppend(e)
               [] kind = "Async" -> AsyncLoggerAppend(p, e)
               [] kind \in {"Console", "File"} -> ConsoleLoggerAppend(e)
               [] kind = "Discard" -> DiscardLoggerAppend(e)
    /\ UNCHANGED <<cfgVars, started, stopPc>>

\* a producer goroutine passes raw bytes to the logger
LoggerWrite(p) ==
    /\ MayCall
    /\ prodPc[p] = "idle"
    /\ prodCount[p] < MaxOps
    /\ LET b == NewBytes(p, prodCount[p] + 1)
       IN /\ prodCount' = [prodCount EXCEPT ![p] = @ + 1]
          /\ handed' = handed \cup {b}
          /\ CASE kind = "Sync" -> SyncLoggerWrite(b)
               [] kind = "Async" -> AsyncLoggerWrite(p, b)
               [] kind \in {"Console", "File"} -> ConsoleLoggerWrite(b)
               [] kind = "Discard" -> DiscardLoggerAppend(b)
    /\ UNCHANGED <<cfgVars, started, stopPc>>

(***************************************************************************)
(* onBufferFull: the three policies.                                       *)
(***************************************************************************)
\* the Discard case without the counter
DiscardNewUncounted(p) ==
    /\ released' = PutIfEvent(released, prodItem[p])
    /\ dropped' = dropped \cup {prodItem[p]}
    /\ prodPc' = [prodPc EXCEPT ![p] = "idle"]
    /\ prodItem' = [prodItem EXCEPT ![p] = NoItem]
    /\ UNCHANGED <<buf, entered, discardCounter>>

\* case BufferFullPolicyDiscard: count, release an event, return
DiscardNew(p) ==
    /\ discardCounter' = discardCounter + 1
    /\ released' = PutIfEvent(released, prodItem[p])
    /\ dropped' = dropped \cup {prodItem[p]}
    /\ prodPc' = [prodPc EXCEPT ![p] = "idle"]
    /\ prodItem' = [prodItem EXCEPT ![p] = NoItem]
    /\ UNCHANGED <<buf, entered>>

\* the Block case counting the blocked item as discarded
EnterBlockCounted(p) ==
    /\ prodPc' = [prodPc EXCEPT ![p] = "send"]
    /\ discardCounter' = discardCounter + 1
    /\ UNCHANGED <<buf, entered, released, dropped, prodItem>>

\* case BufferFullPolicyBlock: the producer reaches `c.buf <- v`
EnterBlock(p) ==
    /\ prodPc' = [prodPc EXCEPT ![p] = "send"]
    /\ UNCHANGED <<buf, entered, discardCounter, released, dropped, prodItem>>

\* case BufferFullPolicyDiscardOldest, the outer select of the loop:
\* `case c.buf <- v: exit = true`, else on to the inner select
RetrySend(p) ==
    IF ChanReady(buf)
    THEN /\ buf' = ChanSend(buf, prodItem[p])
         /\ entered' = Append(entered, prodItem[p])
         /\ prodPc' = [prodPc EXCEPT ![p] = "idle"]
         /\ prodItem' = [prodItem EXCEPT ![p] = NoItem]
         /\ UNCHANGED <<discardCounter, released, dropped>>
    ELSE /\ prodPc' = [prodPc EXCEPT ![p] = "drop"]
         /\ UNCHANGED <<buf, entered, discardCounter, released, dropped, prodItem>>

\* func (c *AsyncLogger) onBufferFull(v any): `switch c.BufferFullPolicy`
OnBufferFull(p) ==
    /\ prodPc[p] = "full"
    /\ CASE BufferFullPolicy = BufferFullPolicyDiscardOldest -> RetrySend(p)
         [] BufferFullPolicy = BufferFullPolicyBlock -> EnterBlock(p)
         [] BufferFullPolicy = BufferFullPolicyDiscard -> DiscardNew(p)
    /\ UNCHANGED <<cfgVars, started, closed, workerPc, prodCount, stopPc, sink,
                   handed, forwarded, dispatched, atStop>>

\* an inner select that removes the newest item of the queue
DropNewest(p) ==
    /\ prodPc[p] = "drop"
    /\ IF buf /= <<>>
       THEN /\ buf' = SubSeq(buf, 1, Len(buf) - 1)
            /\ discardCounter' = discardCounter + 1
            /\ released' = PutIfEvent(released, buf[Len(buf)])
            /\ dropped' = dropped \cup {buf[Len(buf)]}
       ELSE UNCHANGED <<buf, discardCounter, released, dropped>>
    /\ prodPc' = [prodPc EXCEPT ![p] = "full"]
    /\ UNCHANGED <<cfgVars, started, closed, workerPc, prodItem, prodCount, stopPc,
                   sink, handed, forwarded, entered, dispatched, atStop>>

\* an inner select that releases the head of the queue, leaves it queued and
\* returns
DropOldestPeek(p) ==
    /\ prodPc[p] = "drop"
    /\ IF buf /= <<>>
       THEN /\ discardCounter' = discardCounter + 1
            /\ released' = PutIfEvent(released, Head(buf))
            /\ dropped' = dropped \cup {Head(buf)}
            /\ prodItem' = [prodItem EXCEPT ![p] = NoItem]
            /\ prodPc' = [prodPc EXCEPT ![p] = "idle"]
       ELSE /\ prodPc' = [prodPc EXCEPT ![p] = "full"]
            /\ UNCHANGED <<discardCounter, released, dropped, prodItem>>
    /\ UNCHANGED <<cfgVars, started, buf, closed, workerPc, prodCount, stopPc,
                   sink, handed, forwarded, entered, dispatched, atStop>>

\* the inner select of the DiscardOldest loop: `case x := <-c.buf:` removes
\* the head, counts it and releases it if it is an event; `default:` does
\* nothing.  Either way the loop starts over.
DropOldest(p) ==
    /\ prodPc[p] = "drop"
    /\ IF buf /= <<>>
       THEN /\ buf' = Tail(buf)
            /\ discardCounter' = discardCounter + 1
            /\ released' = PutIfEvent(released, Head(buf))
            /\ dropped' = dropped \cup {Head(buf)}
       ELSE UNCHANGED <<buf, discardCounter, released, dropped>>
    /\ prodPc' = [prodPc EXCEPT ![p] = "full"]
    /\ UNCHANGED <<cfgVars, started, closed, workerPc, prodItem, prodCount, stopPc,
                   sink, handed, forwarded, entered, dispatched, atStop>>

\* `c.buf <- v` of the Block case: proceeds once the queue has room
BlockingSend(p) ==
    /\ prodPc[p] = "send"
    /\ ChanReady(buf)
    /\ buf' = ChanSend(buf, prodItem[p])
    /\ entered' = Append(entered, prodItem[p])
    /\ prodPc' = [prodPc EXCEPT ![p] = "idle"]
    /\ prodItem' = [prodItem EXCEPT ![p] = NoItem]
    /\ UNCHANGED <<cfgVars, started, closed, workerPc, discardCounter, prodCount,
                   stopPc, sink, released, handed, forwarded, dispatched, atStop,
                   dropped>>

(***************************************************************************)
(* Start, the worker goroutine, Stop.                                      *)
(***************************************************************************)
\* a Start that never fails
StartErrorNever(async, size) == "ok"

\* the error Start returns: `if c.BufferSize < 100` in AsyncLogger.Start, nil
\* in the Start of every other logger
StartError(async, size) ==
    IF async /\ size < MinBufferSize THEN "bufferSize is too small" ELSE "ok"

\* Start of the logger.  AsyncLogger.Start fails on a small BufferSize and
\* otherwise makes c.buf, c.wait and c.stop and launches the worker.
Start ==
    /\ started = "new"
    /\ IF StartError(kind = "Async", BufferSize) /= "ok"
       THEN started' = "failed" /\ UNCHANGED workerPc
       ELSE /\ started' = "started"
            /\ IF kind = "Async" THEN workerPc' = "run" ELSE UNCHANGED workerPc
    /\ UNCHANGED <<cfgVars, buf, closed, discardCounter, prodPc, prodItem, prodCount,
                   stopPc, sink, released, handed, forwarded, entered, dispatched,
                   atStop, dropped>>

\* `if v == c.stop { break }`
IsStop(v) == v = StopEvent

\* one iteration of the worker goroutine's loop
WorkerStep ==
    /\ workerPc = "run"
    /\ buf /= <<>>
    /\ LET v == Head(buf)
       IN IF IsStop(v)
          THEN /\ workerPc' = "exited"
               /\ buf' = Tail(buf)
               /\ UNCHANGED <<sink, released, dispatched>>
          ELSE /\ buf' = Tail(buf)
               /\ sink' = IF v.kind = "event" THEN DispatchEvent(sink, v)
                          ELSE DispatchBytes(sink, v)
               /\ released' = PutIfEvent(released, v)
               /\ dispatched' = Append(dispatched, v)
               /\ UNCHANGED workerPc
    /\ UNCHANGED <<cfgVars, started, closed, discardCounter, prodPc, prodItem,
                   prodCount, stopPc, handed, forwarded, entered, atStop, dropped>>

\* Stop is called.  The callers have finished their Append / Write calls.
\* SyncLogger.Stop and the Stop of the embedded appenders return at once.
StopCall ==
    /\ started = "started"
    /\ stopPc = "idle"
    /\ \A p \in Producers : prodPc[p] = "idle"
    /\ IF kind = "Async"
       THEN stopPc' = "send" /\ atStop' = buf
       ELSE stopPc' = "done" /\ UNCHANGED atStop
    /\ UNCHANGED <<cfgVars, started, buf, closed, workerPc, discardCounter, prodPc,
                   prodItem, prodCount, sink, released, handed, forwarded, entered,
                   dispatched, dropped>>

\* Stop is called while Append / Write calls are still in onBufferFull
StopCallEarly ==
    /\ started = "started"
    /\ stopPc = "idle"
    /\ kind = "Async"
    /\ stopPc' = "send"
    /\ atStop' = buf
    /\ UNCHANGED <<cfgVars, started, buf, closed, workerPc, discardCounter, prodPc,
                   prodItem, prodCount, sink, released, handed, forwarded, entered,
                   dispatched, dropped>>

\* `c.buf <- c.stop`
StopSend ==
    /\ stopPc = "send"
    /\ ChanReady(buf)
    /\ buf' = ChanSend(buf, StopEvent)
    /\ stopPc' = "wait"
    /\ UNCHANGED <<cfgVars, started, closed, workerPc, discardCounter, prodPc,
                   prodItem, prodCount, sink, released, handed, forwarded, entered,
                   dispatched, atStop, dropped>>

\* `<-c.wait; close(c.buf)`
StopWait ==
    /\ stopPc = "wait"
    /\ workerPc = "exited"
    /\ closed' = TRUE
    /\ stopPc' = "done"
    /\ UNCHANGED <<cfgVars, started, buf, workerPc, discardCounter, prodPc,
                   prodItem, prodCount, sink, released, handed, forwarded, entered,
                   dispatched, atStop, dropped>>

(***************************************************************************)
(* Producers that never stop publishing.  The steps of Write, of the       *)
(* DiscardOldest loop and of the worker, on the queue and the producers'   *)
(* positions alone: the history variables are left as they are, so that    *)
(* the number of calls needs no bound.                                     *)
(***************************************************************************)
\* one more Write by producer p: the select of AsyncLogger.Write
BusyWrite(p) ==
    /\ started = "started"
    /\ stopPc = "idle"
    /\ prodPc[p] = "idle"
    /\ LET b == NewBytes(p, 1)
       IN IF ChanReady(buf)
          THEN /\ buf' = ChanSend(buf, b)
               /\ UNCHANGED <<prodPc, prodItem>>
          ELSE /\ prodPc' = [prodPc EXCEPT ![p] = "full"]
               /\ prodItem' = [prodItem EXCEPT ![p] = b]
               /\ UNCHANGED buf
    /\ UNCHANGED <<cfgVars, started, closed, workerPc, discardCounter, prodCount,
                   stopPc, sink, released, handed, forwarded, entered, dispatched,
                   atStop, dropped>>

\* the outer select of the DiscardOldest loop
BusyRetrySend(p) ==
    /\ prodPc[p] = "full"
    /\ BufferFullPolicy = BufferFullPolicyDiscardOldest
    /\ IF ChanReady(buf)
       THEN /\ buf' = ChanSend(buf, prodItem[p])
            /\ prodPc' = [prodPc EXCEPT ![p] = "idle"]
            /\ prodItem' = [prodItem EXCEPT ![p] = NoItem]
       ELSE /\ prodPc' = [prodPc EXCEPT ![p] = "drop"]
            /\ UNCHANGED <<buf, prodItem>>
    /\ UNCHANGED <<cfgVars, started, closed, workerPc, discardCounter, prodCount,
                   stopPc, sink, released, handed, forwarded, entered, dispatched,
                   atStop, dropped>>

\* the inner select of the DiscardOldest loop; the int64 counter wraps, in
\* the model at CounterWrap
BusyDropOldest(p) ==
    /\ prodPc[p] = "drop"
    /\ IF buf /= <<>>
       THEN /\ buf' = Tail(buf)
            /\ discardCounter' = (discardCounter + 1) % CounterWrap
       ELSE UNCHANGED <<buf, discardCounter>>
    /\ prodPc' = [prodPc EXCEPT ![p] = "full"]
    /\ UNCHANGED <<cfgVars, started, closed, workerPc, prodItem, prodCount, stopPc,
                   sink, released, handed, forwarded, entered, dispatched, atStop,
                   dropped>>

\* one iteration of the worker's loop on a byte slice
BusyWorkerStep ==
    /\ workerPc = "run"
    /\ buf /= <<>>
    /\ buf' = Tail(buf)
    /\ UNCHANGED <<cfgVars, started, closed, workerPc, discardCounter, prodPc,
                   prodItem, prodCount, stopPc, sink, released, handed, forwarded,
                   entered, dispatched, atStop, dropped>>

(***************************************************************************)
(* The configuration state: RefreshConfig and Destroy.                     *)
(***************************************************************************)
Refreshers == 1..NumRefreshers

VARIABLES
    init,            \* global.init
    gLoggers,        \* global.loggers
    gAppenders,      \* global.appenders
    tagRegistry,     \* the keys of tagRegistry
    loggerMap,       \* the keys of loggerMap
    tagLogger,       \* per tag: obj.logger
    wrapLogger,      \* per logger wrapper of loggerMap: l.logger
    refAppender,     \* the AppenderRef.Appender fields set: <<logger, ref, appender>>
    running,         \* the loggers and appenders started and not stopped
    stopLog,         \* history: the Stop calls of the last Destroy, in order
    lastCall,        \* history: how the last RegisterTag / GetLogger call ended
    refPc,           \* per RefreshConfig call: "idle", "check", "set", "body", "done"
    refCfg,          \* per RefreshConfig call: the configuration passed
    refCalls,        \* per caller: the RefreshConfig calls made so far
    refResult,       \* per RefreshConfig call: the error returned, "ok", or "none"
    refErrArg,       \* per RefreshConfig call: the name the error message carries
    passed,          \* history: calls that got past the `if global.init` check
    lastOk,          \* history: the last RefreshConfig call that returned nil
    cTable,          \* a tag table cTags, for the binding loop taken alone
    destroys         \* history: Destroy calls made

refreshVars == <<init, gLoggers, gAppenders, tagRegistry, loggerMap, tagLogger,
                 wrapLogger, refAppender, running, stopLog, lastCall, refPc,
                 refCfg, refCalls, refResult, refErrArg, passed, lastOk, cTable,
                 destroys>>


\* the logger every tag and wrapper falls back to before a refresh
DefaultLogger == <<0, 0, "default">>

\* Tag.logger and LoggerWrapper.logger before anything is bound
NilLogger == <<0, 0, "nil">>

\* RootLoggerName
RootLoggerName == "root"

\* A tag is the sequence of its `_`-separated segments: "_com_x" is
\* <<"com", "x">>, the pattern "_com_*" is <<"com", "*">>, and the entry
\* `**` of a configuration is <<"**">>.
RegisteredTags == {<<"com", "x">>, <<"def">>}

\* the tags the binding loop taken alone is run on
RoutedTags == {<<"a", "b", "x">>, <<"a", "b", "x", "y">>, <<"a", "c">>, <<"a">>}

\* the names GetLogger is called with
WrapperNames == {"root", "myLogger"}

\* The configurations passed to RefreshConfig: the sub-keys of `appender`,
\* and per sub-key of `logger` its type, tags, buffer size and appender refs.
CfgGood ==
    [appenders |-> <<"a1">>,
     loggers |-> << [name |-> "myLogger", type |-> "AsyncLogger",
                     tags |-> << <<"com", "*">> >>, bufferSize |-> MinBufferSize,
                     refs |-> <<"a1">>] >>]
CfgBadTag ==
    [appenders |-> <<"a1">>,
     loggers |-> << [name |-> "myLogger", type |-> "Logger",
                     tags |-> << <<"**">> >>, bufferSize |-> 0,
                     refs |-> <<"a1">>] >>]
CfgSmallBuffer ==
    [appenders |-> <<"a1">>,
     loggers |-> << [name |-> "other", type |-> "AsyncLogger",
                     tags |-> << <<"def">> >>, bufferSize |-> MinBufferSize,
                     refs |-> <<"a1">>],
                    [name |-> "myLogger", type |-> "AsyncLogger",
                     tags |-> << <<"com", "*">> >>, bufferSize |-> MinBufferSize - 1,
                     refs |-> <<"a1">>] >>]
CfgNoAppenders == [appenders |-> <<>>, loggers |-> <<>>]
CfgRoot ==
    [appenders |-> <<"a1", "a2">>,
     loggers |-> << [name |-> "root", type |-> "Logger",
                     tags |-> <<>>, bufferSize |-> 0, refs |-> <<"a2">>],
                    [name |-> "myLogger", type |-> "Logger",
                     tags |-> << <<"com", "x">>, <<"com", "*">> >>, bufferSize |-> 0,
                     refs |-> <<"a1", "a2">>] >>]
CfgDupTag ==
    [appenders |-> <<"a1">>,
     loggers |-> << [name |-> "myLogger", type |-> "Logger",
                     tags |-> << <<"com", "*">>, <<"com", "*">> >>, bufferSize |-> 0,
                     refs |-> <<"a1">>],
                    [name |-> "other", type |-> "Logger",
                     tags |-> << <<"def">>, <<"com", "*">> >>, bufferSize |-> 0,
                     refs |-> <<"a1">>] >>]
CfgMissingRef ==
    [appenders |-> <<"a1">>,
     loggers |-> << [name |-> "myLogger", type |-> "Logger",
                     tags |-> << <<"com", "*">> >>, bufferSize |-> 0,
                     refs |-> <<"a1", "a9">>] >>]
Configs == {CfgGood, CfgBadTag, CfgSmallBuffer, CfgNoAppenders, CfgRoot,
            CfgDupTag, CfgMissingRef}

\* strings.Contains(tag, "*")
ContainsStar(tag) == \E i \in 1..Len(tag) : tag[i] \in {"*", "**"}

\* strings.HasSuffix(tag, "_*")
HasStarSuffix(tag) == tag /= <<>> /\ tag[Len(tag)] = "*"

\* the tag-validation loop over one logger's tag list: the first error, or "ok"
TagListError(tags) ==
    IF \E i \in 1..Len(tags) : ContainsStar(tags[i]) /\ ~HasStarSuffix(tags[i])
    THEN "tag is invalid"
    ELSE IF tags = <<>> THEN "logger must have attribute 'tags'"
    ELSE "ok"

\* a lookup that finds every ref
MissingRefsNone(cfg, l) == {}

\* `appender, ok := cAppenders[r.Ref]` over the refs of one logger: the
\* positions of the refs that name no configured appender
MissingRefs(cfg, l) ==
    {k \in 1..Len(l.refs) :
        \A a \in 1..Len(cfg.appenders) : cfg.appenders[a] /= l.refs[k]}

\* `r.Appender = appender` over the refs of one logger
BindRefs(r, c, l) ==
    {<<<<r, c, l.name>>, l.refs[k], <<r, c, l.refs[k]>>>> : k \in 1..Len(l.refs)}

\* a table that takes every entry
TagClashNever(cTags, tags, inst) == FALSE

\* `if l, ok := cTags[strTag]; ok && l != logger` over the tags of one logger
TagClash(cTags, tags, inst) ==
    \E k \in 1..Len(tags) : \E t \in cTags : t[1] = tags[k] /\ t[2] /= inst

RECURSIVE BuildTags(_, _, _, _, _)
\* The loop `for _, name := range loggers` of call c of caller r: the refs
\* bound, the root logger and the tag table built, or the first error and
\* the name its message carries.
BuildTags(r, c, cfg, i, acc) ==
    IF i > Len(cfg.loggers)
    THEN [err |-> "ok", arg |-> "", cTags |-> acc.cTags, cRoot |-> acc.cRoot,
          bound |-> acc.bound]
    ELSE LET l == cfg.loggers[i]
             inst == <<r, c, l.name>>
             missing == MissingRefs(cfg, l)
             first == CHOOSE k \in missing : \A j \in missing : k <= j
             fail(e, a, b) == [err |-> e, arg |-> a, cTags |-> acc.cTags,
                               cRoot |-> acc.cRoot, bound |-> b]
             bound == acc.bound \cup BindRefs(r, c, l)
             e == TagListError(l.tags)
         IN IF missing /= {}
            THEN fail("appender not found", l.refs[first],
                      acc.bound \cup {b \in BindRefs(r, c, l) :
                                         \E k \in 1..(first - 1) : l.refs[k] = b[2]})
            ELSE IF l.name = RootLoggerName
            THEN IF l.tags /= <<>>
                 THEN fail("root logger must not define any tags", l.name, bound)
                 ELSE BuildTags(r, c, cfg, i + 1,
                                [cTags |-> acc.cTags, cRoot |-> inst, bound |-> bound])
            ELSE IF e /= "ok" THEN fail(e, l.name, bound)
            ELSE IF TagClash(acc.cTags, l.tags, inst)
            THEN fail("tag already config", l.name, bound)
            ELSE BuildTags(r, c, cfg, i + 1,
                           [cTags |-> acc.cTags \cup
                                         {<<l.tags[k], inst>> : k \in 1..Len(l.tags)},
                            cRoot |-> acc.cRoot, bound |-> bound])

\* the loop run from the empty maps, with cRoot = defaultLogger (lines 121-190)
Built(r, c, cfg) ==
    BuildTags(r, c, cfg, 1, [cTags |-> {}, cRoot |-> DefaultLogger, bound |-> {}])

\* strings.CutSuffix(tag, "_*")
CutStarSuffix(tag) == IF HasStarSuffix(tag) THEN SubSeq(tag, 1, Len(tag) - 1) ELSE tag

\* a lookup that prefers the pattern one segment up to the exact entry
findWildcardFirst(cTags, cRoot, tag) ==
    LET up == SubSeq(tag, 1, Len(tag) - 1) \o <<"*">>
    IN IF Len(tag) > 1 /\ \E t \in cTags : t[1] = up
       THEN (CHOOSE t \in cTags : t[1] = up)[2]
       ELSE IF \E t \in cTags : t[1] = tag
       THEN (CHOOSE t \in cTags : t[1] = tag)[2]
       ELSE cRoot

\* a lookup that tries the pattern one segment up and no further
findNoWalk(cTags, cRoot, tag) ==
    LET up == SubSeq(tag, 1, Len(tag) - 1) \o <<"*">>
    IN IF \E t \in cTags : t[1] = tag
       THEN (CHOOSE t \in cTags : t[1] = tag)[2]
       ELSE IF Len(tag) > 1 /\ \E t \in cTags : t[1] = up
       THEN (CHOOSE t \in cTags : t[1] = up)[2]
       ELSE cRoot

RECURSIVE findLoggerForTag(_, _, _)
\* findLoggerForTag: the exact entry, else the pattern one segment up, else
\* the root logger
findLoggerForTag(cTags, cRoot, tag) ==
    IF \E t \in cTags : t[1] = tag
    THEN (CHOOSE t \in cTags : t[1] = tag)[2]
    ELSE LET cut == CutStarSuffix(tag)
         IN IF Len(cut) <= 1 THEN cRoot
            ELSE findLoggerForTag(cTags, cRoot, SubSeq(cut, 1, Len(cut) - 1) \o <<"*">>)

\* a getLogger without the fallback
getLoggerNoFallback(tag) == tagLogger[tag]

\* getLogger(tag): the logger bound to the tag, the default logger if none
getLogger(tag) == IF tagLogger[tag] /= NilLogger THEN tagLogger[tag] ELSE DefaultLogger

\* the instances a RefreshConfig call creates: cLoggers (with the root
\* logger, which a logger named root replaces) and cAppenders
CLoggers(r, c, cfg) ==
    {<<r, c, cfg.loggers[i].name>> : i \in 1..Len(cfg.loggers)}
    \cup (IF \E i \in 1..Len(cfg.loggers) : cfg.loggers[i].name = RootLoggerName
          THEN {} ELSE {DefaultLogger})
CAppenders(r, c, cfg) == {<<r, c, cfg.appenders[i]>> : i \in 1..Len(cfg.appenders)}

\* the loggers of a configuration whose Start returns an error
FailStart(r, c, cfg) ==
    {<<r, c, cfg.loggers[i].name>> : i \in
        {j \in 1..Len(cfg.loggers) :
            StartError(cfg.loggers[j].type = "AsyncLogger",
                       cfg.loggers[j].bufferSize) /= "ok"}}

\* the name a logger instance is stored under in cLoggers
CName(inst) == IF inst = DefaultLogger THEN RootLoggerName ELSE inst[3]

\* the variables of the package that no RefreshConfig step before the body
\* touches
globalVars == <<gLoggers, gAppenders, tagRegistry, loggerMap, tagLogger,
                wrapLogger, refAppender, running, stopLog, lastCall, lastOk,
                cTable>>

\* a RegisterTag that does not look at global.init
RegisterTagUnchecked(t) ==
    /\ lastCall' = "returned"
    /\ tagRegistry' = tagRegistry \cup {t}
    /\ UNCHANGED <<init, gLoggers, gAppenders, loggerMap, tagLogger, wrapLogger,
                   refAppender, running, stopLog, refPc, refCfg, refCalls,
                   refResult, refErrArg, passed, lastOk, cTable, destroys>>

\* func RegisterTag(tag string) *Tag
RegisterTag(t) ==
    /\ IF init
       THEN /\ lastCall' = "panicked"
            /\ UNCHANGED tagRegistry
       ELSE /\ lastCall' = "returned"
            /\ tagRegistry' = tagRegistry \cup {t}
    /\ UNCHANGED <<init, gLoggers, gAppenders, loggerMap, tagLogger, wrapLogger,
                   refAppender, running, stopLog, refPc, refCfg, refCalls,
                   refResult, refErrArg, passed, lastOk, cTable, destroys>>

\* func GetLogger(name string) *LoggerWrapper
GetLogger(n) ==
    /\ IF init
       THEN /\ lastCall' = "panicked"
            /\ UNCHANGED loggerMap
       ELSE /\ lastCall' = "returned"
            /\ loggerMap' = loggerMap \cup {n}
    /\ UNCHANGED <<init, gLoggers, gAppenders, tagRegistry, tagLogger, wrapLogger,
                   refAppender, running, stopLog, refPc, refCfg, refCalls,
                   refResult, refErrArg, passed, lastOk, cTable, destroys>>

\* RefreshConfig is called: the `appender` and `logger` sections are read
\* (lines 62-74)
RefreshBegin(r, cfg) ==
    /\ refPc[r] \in {"idle", "done"}
    /\ refCalls[r] < MaxCalls
    /\ refCalls' = [refCalls EXCEPT ![r] = @ + 1]
    /\ refCfg' = [refCfg EXCEPT ![r] = cfg]
    /\ refErrArg' = [refErrArg EXCEPT ![r] = ""]
    /\ IF cfg.appenders = <<>>
       THEN /\ refPc' = [refPc EXCEPT ![r] = "done"]
            /\ refResult' = [refResult EXCEPT ![r] = "appenders section not found"]
       ELSE /\ refPc' = [refPc EXCEPT ![r] = "check"]
            /\ refResult' = [refResult EXCEPT ![r] = "none"]
    /\ UNCHANGED <<init, globalVars, passed, destroys>>

\* `if global.init { return "log refresh already done" }`: the read of the
\* plain bool
CheckInit(r) ==
    /\ IF init
       THEN /\ refPc' = [refPc EXCEPT ![r] = "done"]
            /\ refResult' = [refResult EXCEPT ![r] = "log refresh already done"]
       ELSE /\ refPc' = [refPc EXCEPT ![r] = "set"]
            /\ UNCHANGED refResult
    /\ UNCHANGED <<init, passed>>

RefreshCheck(r) ==
    /\ refPc[r] = "check"
    /\ CheckInit(r)
    /\ UNCHANGED <<globalVars, refCfg, refCalls, refErrArg, destroys>>

\* `global.init = true`: the write of the plain bool
RefreshSet(r) ==
    /\ refPc[r] = "set"
    /\ init' = TRUE
    /\ passed' = passed + 1
    /\ refPc' = [refPc EXCEPT ![r] = "body"]
    /\ UNCHANGED <<globalVars, refCfg, refCalls, refResult, refErrArg, destroys>>

\* the return of a RefreshConfig call with an error whose message carries
\* the name arg
RefreshReturn(r, err, arg) ==
    /\ refPc' = [refPc EXCEPT ![r] = "done"]
    /\ refResult' = [refResult EXCEPT ![r] = err]
    /\ refErrArg' = [refErrArg EXCEPT ![r] = arg]

\* the appenders stopped first
StopOrderAppendersFirst(ls, as) == as \o ls

\* the order in which Destroy calls Stop: the loggers of global.loggers,
\* then the appenders of global.appenders
StopOrder(ls, as) == ls \o as

\* the orders a range over a map may have left a list in
Orders(S, k) ==
    {f \in [1..Cardinality(S) -> [kind : {k}, inst : S]] :
        \A i, j \in 1..Cardinality(S) : f[i] = f[j] => i = j}

\* a Destroy that never returns early
UninitialisedNever == FALSE

\* the test of the flag inverted
UninitialisedInverted == init

\* `if !global.init { return }`
Uninitialised == ~init

\* The rest of RefreshConfig (lines 82-252): the plugins are created, the
\* refs bound, the tags validated, the appenders and loggers started, the
\* wrappers and the tags bound, the lists published.
RefreshBody(r) ==
    /\ refPc[r] = "body"
    /\ LET cfg == refCfg[r]
           c == refCalls[r]
           built == Built(r, c, cfg)
           cLoggers == CLoggers(r, c, cfg)
           cAppenders == CAppenders(r, c, cfg)
           failing == FailStart(r, c, cfg)
       IN /\ refAppender' = refAppender \cup built.bound
          /\ IF built.err /= "ok"
             THEN /\ RefreshReturn(r, built.err, built.arg)
                  /\ UNCHANGED <<gLoggers, gAppenders, tagLogger, wrapLogger,
                                 running, lastOk>>
             ELSE IF failing /= {}
             THEN \* the range over the map cLoggers meets the loggers in any order
                  /\ \E before \in SUBSET (cLoggers \ failing) :
                        running' = running \cup cAppenders \cup before
                  /\ \E f \in failing :
                        RefreshReturn(r, "logger start error << bufferSize is too small",
                                      CName(f))
                  /\ UNCHANGED <<gLoggers, gAppenders, tagLogger, wrapLogger, lastOk>>
             ELSE IF \E w \in loggerMap : \A l \in cLoggers : CName(l) /= w
             THEN \* the range over loggerMap meets the wrappers in any order
                  /\ \E before \in SUBSET {w \in loggerMap :
                                              \E l \in cLoggers : CName(l) = w} :
                        wrapLogger' = [w \in WrapperNames |->
                           IF w \in before
                           THEN CHOOSE l \in cLoggers : CName(l) = w
                           ELSE wrapLogger[w]]
                  /\ running' = running \cup cAppenders \cup cLoggers
                  /\ \E w \in {v \in loggerMap : \A l \in cLoggers : CName(l) /= v} :
                        RefreshReturn(r, "logger not found", w)
                  /\ UNCHANGED <<gLoggers, gAppenders, tagLogger, lastOk>>
             ELSE /\ running' = running \cup cAppenders \cup cLoggers
                  /\ wrapLogger' = [w \in WrapperNames |->
                                       IF w \in loggerMap
                                       THEN CHOOSE l \in cLoggers : CName(l) = w
                                       ELSE wrapLogger[w]]
                  /\ tagLogger' = [t \in DOMAIN tagLogger |->
                                      IF t \in tagRegistry
                                      THEN findLoggerForTag(built.cTags, built.cRoot, t)
                                      ELSE tagLogger[t]]
                  /\ gLoggers' = gLoggers \cup cLoggers
                  /\ gAppenders' = gAppenders \cup cAppenders
                  /\ lastOk' = [r |-> r, c |-> c, cfg |-> cfg, tags |-> tagRegistry]
                  /\ RefreshReturn(r, "ok", "")
    /\ UNCHANGED <<init, tagRegistry, loggerMap, stopLog, lastCall, refCfg,
                   refCalls, passed, cTable, destroys>>

\* func Destroy()
Destroy ==
    /\ destroys < MaxDestroys
    /\ destroys' = destroys + 1
    /\ IF Uninitialised
       THEN UNCHANGED <<init, gLoggers, gAppenders, running, stopLog>>
       ELSE /\ \E ls \in Orders(gLoggers, "logger") :
               \E as \in Orders(gAppenders, "appender") :
                  stopLog' = StopOrder(ls, as)
            /\ running' = running \ (gLoggers \cup gAppenders)
            /\ gLoggers' = {}
            /\ gAppenders' = {}
            /\ init' = FALSE
    /\ UNCHANGED <<tagRegistry, loggerMap, tagLogger, wrapLogger, refAppender,
                   lastCall, refPc, refCfg, refCalls, refResult, refErrArg,
                   passed, lastOk, cTable>>

\* The loop `for tag, obj := range tagRegistry` taken alone, one tag at a
\* time: obj.logger = findLoggerForTag(tag), over the table cTable with the
\* default logger as root.
BindTag(t) ==
    /\ t \in tagRegistry
    /\ tagLogger[t] = NilLogger
    /\ tagLogger' = [tagLogger EXCEPT ![t] = findLoggerForTag(cTable, DefaultLogger, t)]
    /\ UNCHANGED <<init, gLoggers, gAppenders, tagRegistry, loggerMap, wrapLogger,
                   refAppender, running, stopLog, lastCall, refPc, refCfg,
                   refCalls, refResult, refErrArg, passed, lastOk, cTable,
                   destroys>>

(***************************************************************************)
(* RollingFileAppender (plugin_appender.go).                               *)
(***************************************************************************)
VARIABLES
    nowTime,         \* c.Rotation.Time(time.Now()): the rotation slot of the clock
    openFails,       \* the environment: os.OpenFile returns an error
    rollStarted,     \* "new", "started", "failed", "stopped"
    file,            \* c.file: the slot of the file it points to, or NoFile
    oldFile,         \* c.oldFile
    currTime,        \* c.currTime
    closedFiles,     \* the files closed so far
    stderrLines,     \* diagnostics printed to os.Stderr
    rotFailing,      \* history: the last rotation failed and none succeeded since
    written          \* history: per Write call, the file written and `rotFailing`

rollVars == <<nowTime, openFails, rollStarted, file, oldFile, currTime,
              closedFiles, stderrLines, rotFailing, written>>

\* a nil *os.File
NoFile == 0 - 1

\* func (c *RollingFileAppender) Start() error
RollingStart ==
    /\ rollStarted = "new"
    /\ IF openFails
       THEN /\ rollStarted' = "failed"
            /\ UNCHANGED <<file, currTime>>
       ELSE /\ rollStarted' = "started"
            /\ file' = nowTime
            /\ currTime' = nowTime
    /\ UNCHANGED <<nowTime, openFails, oldFile, closedFiles, stderrLines,
                   rotFailing, written>>

\* the clock enters the next rotation slot
Tick ==
    /\ nowTime < MaxSlots
    /\ nowTime' = nowTime + 1
    /\ UNCHANGED <<openFails, rollStarted, file, oldFile, currTime, closedFiles,
                   stderrLines, rotFailing, written>>

\* the directory becomes unwritable, or writable again
SetOpenFails(b) ==
    /\ openFails /= b
    /\ openFails' = b
    /\ UNCHANGED <<nowTime, rollStarted, file, oldFile, currTime, closedFiles,
                   stderrLines, rotFailing, written>>

\* func (c *RollingFileAppender) rotate(): the fields it leaves behind, as
\* [file, oldFile, currTime, closed, stderr, failing]
rotate ==
    LET same == [file |-> file, oldFile |-> oldFile, currTime |-> currTime,
                 closed |-> closedFiles, stderr |-> stderrLines,
                 failing |-> rotFailing]
        nowClosed == IF oldFile /= NoFile THEN closedFiles \cup {oldFile}
                  ELSE closedFiles
    IN IF nowTime <= currTime THEN same
       ELSE IF openFails
       THEN \* currTime was swapped to nowTime, c.oldFile closed, the error printed
            [file |-> file, oldFile |-> NoFile, currTime |-> nowTime,
             closed |-> nowClosed, stderr |-> stderrLines + 1, failing |-> TRUE]
       ELSE [file |-> nowTime, oldFile |-> file, currTime |-> nowTime,
             closed |-> nowClosed, stderr |-> stderrLines, failing |-> FALSE]

\* func (c *RollingFileAppender) Write(b []byte): rotate, then write to the
\* file c.file points to, if any
RollingWrite ==
    /\ rollStarted = "started"
    /\ Len(written) < MaxWrites
    /\ LET r == rotate
       IN /\ file' = r.file
          /\ oldFile' = r.oldFile
          /\ currTime' = r.currTime
          /\ closedFiles' = r.closed
          /\ stderrLines' = r.stderr
          /\ rotFailing' = r.failing
          /\ written' = Append(written, [at |-> nowTime, to |-> r.file,
                                         failing |-> r.failing])
    /\ UNCHANGED <<nowTime, openFails, rollStarted>>

\* func (c *RollingFileAppender) Stop()
RollingStop ==
    /\ rollStarted = "started"
    /\ rollStarted' = "stopped"
    /\ closedFiles' = closedFiles \cup ({file, oldFile} \ {NoFile})
    /\ file' = NoFile
    /\ oldFile' = NoFile
    /\ UNCHANGED <<nowTime, openFails, currTime, stderrLines, rotFailing, written>>

\* the appender as NewPlugin built it, before Start
InitRolling ==
    /\ nowTime = 1
    /\ openFails = FALSE
    /\ rollStarted = "new"
    /\ file = NoFile
    /\ oldFile = NoFile
    /\ currTime = 0
    /\ closedFiles = {}
    /\ stderrLines = 0
    /\ rotFailing = FALSE
    /\ written = <<>>

(***************************************************************************)
(* The record calls (Trace, Debug, Info, ...) on a tag bound to a          *)
(* SyncLogger, with a sink whose Append publishes to the same logger.      *)
(* One goroutine; its call stack is explicit.                              *)
(***************************************************************************)
VARIABLES
    recLogger,       \* the SyncLogger the tag is bound to: Level, AppenderRefs
    stack,           \* the SyncLogger.Append calls in progress, innermost last
    taken,           \* GetEvent calls made
    put,             \* PutEvent calls made
    fnCalls,         \* invocations of a lazy field callback
    recCalls,        \* history: the record functions called, in call order
    recSink          \* history: what the appenders received, in order

recVars == <<recLogger, stack, taken, put, fnCalls, recCalls, recSink>>

\* the record functions called
Apis == {"Trace", "Tracef", "Debug", "Info", "Error"}

\* the level each of them passes to record
ApiLevel(api) ==
    CASE api \in {"Trace", "Tracef"} -> TraceLevel
      [] api = "Debug" -> DebugLevel
      [] api = "Info" -> InfoLevel
      [] OTHER -> ErrorLevel

\* Trace and Debug take `fn func() []Field`
IsLazy(api) == api \in {"Trace", "Debug"}

\* a callback invoked before the level is looked at
LazyFieldsEager(lazy, enabled) == lazy

\* `record(ctx, TraceLevel, tag.tag, l, 2, fn()...)` inside the `if`: the
\* callback runs when the level check passed
LazyFields(lazy, enabled) == lazy /\ enabled

\* the level ranges of the tag's logger
RecLevels == {LevelRange(DebugLevel, MaxLevel), LevelRange(InfoLevel, ErrorLevel)}

\* its appender references after sortByLevel: a plain appender below INFO and
\* an appender whose Append logs through the same tag from INFO on
RecRefs ==
    << [Ref |-> "plain", Level |-> LevelRange(NoneLevel, InfoLevel), reentrant |-> FALSE],
       [Ref |-> "loop", Level |-> LevelRange(InfoLevel, MaxLevel), reentrant |-> TRUE] >>

\* a SyncLogger.Append that would hold a mutex for the whole dispatch
LockedWhileAppending(stk) == stk /= <<>>

\* SyncLogger has no mutex: a call to Append never finds the logger locked
Locked(stk) == FALSE

\* Trace / Debug / Info / ... followed by record, up to the entry into
\* logger.Append(e); stk is the caller's stack
PublishTo(api, stk) ==
    LET l == ApiLevel(api)
        enabled == Enable(recLogger.Level, l)
        frame == [id |-> taken + 1, level |-> l, inner |-> FALSE,
                  ref |-> IF Enable(recLogger.Level, l) THEN 1
                          ELSE Len(recLogger.AppenderRefs) + 1]
    IN /\ fnCalls' = fnCalls + (IF LazyFields(IsLazy(api), enabled) THEN 1 ELSE 0)
       /\ IF enabled
          THEN /\ taken' = taken + 1
               /\ stack' = Append(stk, frame)
          ELSE /\ taken' = taken
               /\ stack' = stk
       /\ recCalls' = Append(recCalls, api)

\* a record function called by the application
RecordCall(api) ==
    /\ stack = <<>>
    /\ Len(recCalls) < MaxRecords
    /\ PublishTo(api, stack)
    /\ UNCHANGED <<recLogger, put, recSink>>

\* the innermost Append call
Top == stack[Len(stack)]

\* the appender the innermost call is at publishes to the same logger
SinkPublish(api) ==
    /\ stack /= <<>>
    /\ Top.ref <= Len(recLogger.AppenderRefs)
    /\ LET r == recLogger.AppenderRefs[Top.ref]
       IN /\ Enable(r.Level, Top.level)
          /\ r.reentrant
    /\ ~Top.inner
    /\ Len(stack) < MaxDepth
    /\ ~Locked(stack)
    /\ PublishTo(api, [stack EXCEPT ![Len(stack)].inner = TRUE])
    /\ UNCHANGED <<recLogger, put, recSink>>

\* one turn of the loop of sendToAppenders in the innermost call: the
\* appender, if its range enables the level, appends the event (after its own
\* publish, when it is the re-entrant one and the nesting is not at its end)
SendToAppender ==
    /\ stack /= <<>>
    /\ Top.ref <= Len(recLogger.AppenderRefs)
    /\ LET r == recLogger.AppenderRefs[Top.ref]
       IN IF Enable(r.Level, Top.level)
          THEN /\ (r.reentrant /\ Len(stack) < MaxDepth) => Top.inner
               /\ recSink' = Append(recSink, [Ref |-> r.Ref, id |-> Top.id])
          ELSE recSink' = recSink
    /\ stack' = [stack EXCEPT ![Len(stack)].ref = @ + 1,
                              ![Len(stack)].inner = FALSE]
    /\ UNCHANGED <<recLogger, taken, put, fnCalls, recCalls>>

\* the end of SyncLogger.Append: PutEvent(e) and return
SyncReturn ==
    /\ stack /= <<>>
    /\ Top.ref > Len(recLogger.AppenderRefs)
    /\ put' = put + 1
    /\ stack' = SubSeq(stack, 1, Len(stack) - 1)
    /\ UNCHANGED <<recLogger, taken, fnCalls, recCalls, recSink>>

\* no record call made yet
IdleRecord ==
    /\ stack = <<>>
    /\ taken = 0
    /\ put = 0
    /\ fnCalls = 0
    /\ recCalls = <<>>
    /\ recSink = <<>>

\* the tag's logger in the specifications that make no record call
InitNoRecord ==
    /\ recLogger = [Level |-> LevelRange(NoneLevel, MaxLevel), AppenderRefs |-> <<>>]
    /\ IdleRecord

(***************************************************************************)
(* initAppenderRefs: the appender refs of one logger, as configured and as *)
(* sortByLevel leaves them.                                                *)
(***************************************************************************)
VARIABLES
    cfgRefs,         \* history: the refs as the configuration listed them
    sortedRefs,      \* ref.AppenderRefs, the field sortByLevel works on
    sortPc           \* "idle", "new", "sorted"

sortVars == <<cfgRefs, sortedRefs, sortPc>>

\* the most appender refs a configured logger lists
MaxRefs == 3

\* the ref lists a configuration may give a logger: the i-th ref names an
\* appender of its own, with a lower and an upper bound, MaxLevel being the
\* default of the `level` attribute
RefLists ==
    UNION {{[i \in 1..n |-> [Ref |-> <<"a1", "a2", "a3">>[i], Level |-> f[i]]] :
               f \in [1..n -> {LevelRange(lo, hi) :
                                   lo \in {NoneLevel, InfoLevel, ErrorLevel},
                                   hi \in {InfoLevel, ErrorLevel, MaxLevel}}]} :
           n \in 1..MaxRefs}

\* the last statement of initAppenderRefs: ref.sortByLevel()
SortRefs ==
    /\ sortPc = "new"
    /\ sortedRefs' \in sortByLevel(sortedRefs)
    /\ sortPc' = "sorted"
    /\ UNCHANGED cfgRefs

\* no logger is being configured
InitNoSort ==
    /\ cfgRefs = <<>>
    /\ sortedRefs = <<>>
    /\ sortPc = "idle"

(***************************************************************************)
(* RollingFileAppender under concurrent Write calls (plugin_appender.go    *)
(* 171-258): every atomic load, store, swap and compare-and-swap of Write, *)
(* rotate and Stop is a step of its own.  A file handle is the index of    *)
(* its os.OpenFile call in opened.                                         *)
(***************************************************************************)
VARIABLES
    clock,           \* c.Rotation.Time(time.Now()): the rotation slot of the clock
    appState,        \* "idle" (no appender), "new", "started", "failed"
    filePtr,         \* c.file: a handle, or NoFile
    oldFilePtr,      \* c.oldFile
    slotTime,        \* c.currTime
    opened,          \* history: per os.OpenFile call that succeeded, its slot and caller
    closes,          \* history: the handles passed to Close, in order
    wPc,             \* per writer: its position in Write / rotate
    wNow,            \* per writer: rotate's nowTime
    wOld,            \* per writer: rotate's oldTime
    wFile,           \* per writer: the handle `file` of rotate, then of Write
    wPrev,           \* per writer: rotate's oldFile, loaded from c.file
    wCalls,          \* per writer: Write calls begun
    writeLog,        \* history: per file.Write, its caller, handle and whether it was closed
    stopperPc        \* "idle", "old", "cur", "done": position in Stop

conVars == <<clock, appState, filePtr, oldFilePtr, slotTime, opened, closes,
             wPc, wNow, wOld, wFile, wPrev, wCalls, writeLog, stopperPc>>

\* the goroutines that call Write, the Write calls each makes, and the
\* rotation slots the clock goes through
NumWriters == 2
MaxWriterCalls == 2
MaxClock == 3

Writers == 1..NumWriters

sharedCon == <<clock, appState, filePtr, oldFilePtr, slotTime, opened, closes,
               writeLog, stopperPc>>

\* the handles closed so far
ClosedHandles == {closes[i] : i \in 1..Len(closes)}

\* func (c *RollingFileAppender) Start() error: the file of the slot is
\* opened, or os.OpenFile fails and Start returns the error
ConStart ==
    /\ appState = "new"
    /\ \/ /\ appState' = "started"
          /\ opened' = Append(opened, [slot |-> clock, by |-> 0])
          /\ filePtr' = Len(opened) + 1
          /\ slotTime' = clock
       \/ /\ appState' = "failed"
          /\ UNCHANGED <<opened, filePtr, slotTime>>
    /\ UNCHANGED <<clock, oldFilePtr, closes, wPc, wNow, wOld, wFile, wPrev,
                   wCalls, writeLog, stopperPc>>

\* the clock enters the next rotation slot
ConTick ==
    /\ clock < MaxClock
    /\ clock' = clock + 1
    /\ UNCHANGED <<appState, filePtr, oldFilePtr, slotTime, opened, closes, wPc,
                   wNow, wOld, wFile, wPrev, wCalls, writeLog, stopperPc>>

\* Write is called and enters rotate: now := time.Now(); nowTime := ...
WriteCall(w) ==
    /\ appState = "started"
    /\ wPc[w] = "idle"
    /\ wCalls[w] < MaxWriterCalls
    /\ wCalls' = [wCalls EXCEPT ![w] = @ + 1]
    /\ wNow' = [wNow EXCEPT ![w] = clock]
    /\ wPc' = [wPc EXCEPT ![w] = "loadTime"]
    /\ UNCHANGED <<sharedCon, wOld, wFile, wPrev>>

\* oldTime := c.currTime.Load(); if nowTime <= oldTime { return }
RotateLoad(w) ==
    /\ wPc[w] = "loadTime"
    /\ wOld' = [wOld EXCEPT ![w] = slotTime]
    /\ wPc' = [wPc EXCEPT ![w] = IF wNow[w] <= slotTime THEN "loadFile" ELSE "cas"]
    /\ UNCHANGED <<sharedCon, wNow, wFile, wPrev, wCalls>>

\* c.currTime.CompareAndSwap(oldTime, nowTime): whether it swaps
Cas(cur, old) == cur = old

\* if !c.currTime.CompareAndSwap(oldTime, nowTime) { return }
RotateCas(w) ==
    /\ wPc[w] = "cas"
    /\ IF Cas(slotTime, wOld[w])
       THEN /\ slotTime' = wNow[w]
            /\ wPc' = [wPc EXCEPT ![w] = "closeOld"]
       ELSE /\ wPc' = [wPc EXCEPT ![w] = "loadFile"]
            /\ UNCHANGED slotTime
    /\ UNCHANGED <<clock, appState, filePtr, oldFilePtr, opened, closes, writeLog,
                   stopperPc, wNow, wOld, wFile, wPrev, wCalls>>

\* if file := c.oldFile.Swap(nil); file != nil { file.Sync(); file.Close() }
RotateCloseOld(w) ==
    /\ wPc[w] = "closeOld"
    /\ oldFilePtr' = NoFile
    /\ closes' = IF oldFilePtr /= NoFile THEN Append(closes, oldFilePtr) ELSE closes
    /\ wPc' = [wPc EXCEPT ![w] = "create"]
    /\ UNCHANGED <<clock, appState, filePtr, slotTime, opened, writeLog, stopperPc,
                   wNow, wOld, wFile, wPrev, wCalls>>

\* filePath, file, err := c.createFile(...): the file of the slot is opened,
\* or os.OpenFile fails and rotate returns
RotateCreate(w) ==
    /\ wPc[w] = "create"
    /\ \/ /\ opened' = Append(opened, [slot |-> wNow[w], by |-> w])
          /\ wFile' = [wFile EXCEPT ![w] = Len(opened) + 1]
          /\ wPc' = [wPc EXCEPT ![w] = "loadCur"]
       \/ /\ wPc' = [wPc EXCEPT ![w] = "loadFile"]
          /\ UNCHANGED <<opened, wFile>>
    /\ UNCHANGED <<clock, appState, filePtr, oldFilePtr, slotTime, closes, writeLog,
                   stopperPc, wNow, wOld, wPrev, wCalls>>

\* oldFile := c.file.Load()
RotateLoadCur(w) ==
    /\ wPc[w] = "loadCur"
    /\ wPrev' = [wPrev EXCEPT ![w] = filePtr]
    /\ wPc' = [wPc EXCEPT ![w] = "storeOld"]
    /\ UNCHANGED <<sharedCon, wNow, wOld, wFile, wCalls>>

\* c.oldFile.Store(oldFile)
RotateStoreOld(w) ==
    /\ wPc[w] = "storeOld"
    /\ oldFilePtr' = wPrev[w]
    /\ wPc' = [wPc EXCEPT ![w] = "storeFile"]
    /\ UNCHANGED <<clock, appState, filePtr, slotTime, opened, closes, writeLog,
                   stopperPc, wNow, wOld, wFile, wPrev, wCalls>>

\* c.file.Store(file)
RotateStoreFile(w) ==
    /\ wPc[w] = "storeFile"
    /\ filePtr' = wFile[w]
    /\ wPc' = [wPc EXCEPT ![w] = "storeTime"]
    /\ UNCHANGED <<clock, appState, oldFilePtr, slotTime, opened, closes, writeLog,
                   stopperPc, wNow, wOld, wFile, wPrev, wCalls>>

\* c.currTime.Store(nowTime); rotate returns
RotateStoreTime(w) ==
    /\ wPc[w] = "storeTime"
    /\ slotTime' = wNow[w]
    /\ wPc' = [wPc EXCEPT ![w] = "loadFile"]
    /\ UNCHANGED <<clock, appState, filePtr, oldFilePtr, opened, closes, writeLog,
                   stopperPc, wNow, wOld, wFile, wPrev, wCalls>>

\* if file := c.file.Load(); file != nil
WriteLoad(w) ==
    /\ wPc[w] = "loadFile"
    /\ wFile' = [wFile EXCEPT ![w] = filePtr]
    /\ wPc' = [wPc EXCEPT ![w] = IF filePtr = NoFile THEN "idle" ELSE "write"]
    /\ UNCHANGED <<sharedCon, wNow, wOld, wPrev, wCalls>>

\* _, _ = file.Write(b)
WriteFile(w) ==
    /\ wPc[w] = "write"
    /\ writeLog' = Append(writeLog, [by |-> w, to |-> wFile[w],
                                     closed |-> wFile[w] \in ClosedHandles])
    /\ wPc' = [wPc EXCEPT ![w] = "idle"]
    /\ UNCHANGED <<clock, appState, filePtr, oldFilePtr, slotTime, opened, closes,
                   stopperPc, wNow, wOld, wFile, wPrev, wCalls>>

\* Stop is called
ConStopCall ==
    /\ appState = "started"
    /\ stopperPc = "idle"
    /\ stopperPc' = "old"
    /\ UNCHANGED <<clock, appState, filePtr, oldFilePtr, slotTime, opened, closes,
                   writeLog, wPc, wNow, wOld, wFile, wPrev, wCalls>>

\* Stop: if file := c.oldFile.Swap(nil); file != nil { file.Sync(); file.Close() }
ConStopOld ==
    /\ stopperPc = "old"
    /\ oldFilePtr' = NoFile
    /\ closes' = IF oldFilePtr /= NoFile THEN Append(closes, oldFilePtr) ELSE closes
    /\ stopperPc' = "cur"
    /\ UNCHANGED <<clock, appState, filePtr, slotTime, opened, writeLog, wPc, wNow,
                   wOld, wFile, wPrev, wCalls>>

\* Stop: if file := c.file.Swap(nil); file != nil { file.Sync(); file.Close() }
ConStopCur ==
    /\ stopperPc = "cur"
    /\ filePtr' = NoFile
    /\ closes' = IF filePtr /= NoFile THEN Append(closes, filePtr) ELSE closes
    /\ stopperPc' = "done"
    /\ UNCHANGED <<clock, appState, oldFilePtr, slotTime, opened, writeLog, wPc,
                   wNow, wOld, wFile, wPrev, wCalls>>

\* no appender is written concurrently
InitNoWriters ==
    /\ clock = 1
    /\ appState = "idle"
    /\ filePtr = NoFile
    /\ oldFilePtr = NoFile
    /\ slotTime = 0
    /\ opened = <<>>
    /\ closes = <<>>
    /\ wPc = [w \in Writers |-> "idle"]
    /\ wNow = [w \in Writers |-> 0]
    /\ wOld = [w \in Writers |-> 0]
    /\ wFile = [w \in Writers |-> NoFile]
    /\ wPrev = [w \in Writers |-> NoFile]
    /\ wCalls = [w \in Writers |-> 0]
    /\ writeLog = <<>>
    /\ stopperPc = "idle"

(***************************************************************************)
(* RollingFileLogger (plugin_logger.go 345-465): the logger that builds    *)
(* its own rolling file appenders and its own inner logger.                *)
(***************************************************************************)
VARIABLES
    rflCfg,          \* the attributes: Level, Layout /= nil, Separate, AsyncWrite, BufferFullPolicy
    rflState,        \* "idle" (no such logger), "new", "started", "failed", "stopped"
    rflLogger,       \* f.logger: "nil", "SyncLogger", "AsyncLogger"
    rflBuf,          \* c.buf of f.logger: "nil" until AsyncLogger.Start makes the channel
    rflAppenders,    \* f.appenders
    rflOpen,         \* the files of the appenders started and not stopped
    rflFiles,        \* per file: the bytes written to it, in order
    rflDiscards,     \* c.discardCounter of f.logger
    rflCalls         \* history: per Append call, its level and how it ended

rflVars == <<rflCfg, rflState, rflLogger, rflBuf, rflAppenders, rflOpen, rflFiles,
             rflDiscards, rflCalls>>

\* the Append calls made on the logger
MaxAppends == 2

\* fileName (default app.log) and the file of the separated levels
NormalFile == "app.log"
WfFile == "app.log.wf"

\* the configurations of the logger
RflConfigs ==
    [Level : {LevelRange(NoneLevel, MaxLevel), LevelRange(WarnLevel, MaxLevel),
              LevelRange(NoneLevel, ErrorLevel)},
     Layout : BOOLEAN,
     Separate : BOOLEAN,
     AsyncWrite : BOOLEAN,
     BufferFullPolicy : Policies]

\* the appender refs initRollingFileLogger builds (lines 391-428)
RflRefs(cfg) ==
    LET normalMaxLevel == IF cfg.Separate THEN WarnLevel ELSE MaxLevel
    IN <<[Ref |-> NormalFile,
          Level |-> LevelRange(cfg.Level.MinLevel, normalMaxLevel)]>>
       \o (IF cfg.Separate
           THEN <<[Ref |-> WfFile,
                   Level |-> LevelRange(normalMaxLevel, cfg.Level.MaxLevel)]>>
           ELSE <<>>)

\* func (f *RollingFileLogger) Start() error: the refs and the inner logger
\* are built and the appenders started, up to the first whose Start fails;
\* Start of the inner logger is not called
RflStart ==
    /\ rflState = "new"
    /\ rflAppenders' = RflRefs(rflCfg)
    /\ rflLogger' = IF rflCfg.AsyncWrite THEN "AsyncLogger" ELSE "SyncLogger"
    /\ \E k \in 0..Len(RflRefs(rflCfg)) :
          /\ rflOpen' = {RflRefs(rflCfg)[i].Ref : i \in 1..k}
          /\ rflState' = IF k = Len(RflRefs(rflCfg)) THEN "started" ELSE "failed"
    /\ UNCHANGED <<rflCfg, rflBuf, rflFiles, rflDiscards, rflCalls>>

\* func (f *RollingFileLogger) Append(e *Event): f.logger.Append(e).  A
\* SyncLogger dispatches at once: with a layout the bytes are written to the
\* files of the enabled refs; without one the event reaches
\* RollingFileAppender.Append, whose own Layout the struct literal of
\* initRollingFileLogger leaves nil.  An AsyncLogger offers the event to
\* c.buf, which takes it only if the channel exists, and otherwise runs
\* onBufferFull on that channel.
RflAppend(l) ==
    /\ rflState = "started"
    /\ Len(rflCalls) < MaxAppends
    /\ LET e == NewEvent(0, Len(rflCalls) + 1, l)
           end(o) == rflCalls' = Append(rflCalls, [level |-> l, id |-> e.id, outcome |-> o])
       IN IF ~Enable(rflCfg.Level, l)
          THEN end("returned") /\ UNCHANGED <<rflFiles, rflBuf, rflDiscards>>
          ELSE IF rflLogger = "SyncLogger"
          THEN IF rflCfg.Layout
               THEN /\ rflFiles' = writeToAppenders(rflFiles, rflAppenders, l, ToBytes(e))
                    /\ end("returned")
                    /\ UNCHANGED <<rflBuf, rflDiscards>>
               ELSE /\ end(IF \E i \in 1..Len(rflAppenders) : Enable(rflAppenders[i].Level, l)
                        THEN "panicked" ELSE "returned")
                    /\ UNCHANGED <<rflFiles, rflBuf, rflDiscards>>
          ELSE IF rflBuf /= "nil" /\ Len(rflBuf) < QueueCap
          THEN /\ rflBuf' = Append(rflBuf, e)
               /\ end("queued")
               /\ UNCHANGED <<rflFiles, rflDiscards>>
          ELSE CASE rflCfg.BufferFullPolicy = BufferFullPolicyDiscard ->
                       /\ rflDiscards' = rflDiscards + 1
                       /\ end("discarded")
                       /\ UNCHANGED <<rflFiles, rflBuf>>
                 [] rflCfg.BufferFullPolicy = BufferFullPolicyBlock ->
                       /\ end("blocked")
                       /\ UNCHANGED <<rflFiles, rflBuf, rflDiscards>>
                 [] rflCfg.BufferFullPolicy = BufferFullPolicyDiscardOldest ->
                       /\ end("spinning")
                       /\ UNCHANGED <<rflFiles, rflBuf, rflDiscards>>
    /\ UNCHANGED <<rflCfg, rflState, rflLogger, rflAppenders, rflOpen>>

\* func (f *RollingFileLogger) Stop(): the appenders are stopped
RflStop ==
    /\ rflState = "started"
    /\ rflState' = "stopped"
    /\ rflOpen' = {}
    /\ UNCHANGED <<rflCfg, rflLogger, rflBuf, rflAppenders, rflFiles, rflDiscards,
                   rflCalls>>

\* no rolling file logger is configured
InitNoRfl ==
    /\ rflCfg = [Level |-> LevelRange(NoneLevel, MaxLevel), Layout |-> FALSE,
                 Separate |-> FALSE, AsyncWrite |-> FALSE,
                 BufferFullPolicy |-> BufferFullPolicyDiscard]
    /\ rflState = "idle"
    /\ rflLogger = "nil"
    /\ rflBuf = "nil"
    /\ rflAppenders = <<>>
    /\ rflOpen = {}
    /\ rflFiles = [f \in {NormalFile, WfFile} |-> <<>>]
    /\ rflDiscards = 0
    /\ rflCalls = <<>>

(***************************************************************************)
(* initAppenderRefs (log_refresh.go 96-119) over the logger plugin types   *)
(* registered by plugin_logger.go 26-35.                                   *)
(***************************************************************************)
VARIABLES
    loggerType,      \* the `type` property of the logger: the plugin NewPlugin built
    loggerRefs,      \* the AppenderRef elements of the logger's configuration
    boundRefs,       \* ref.AppenderRefs after initAppenderRefs
    initRefsResult   \* "idle" (no logger), "none", "ok", "appender not found", "panicked"

iarVars == <<loggerType, loggerRefs, boundRefs, initRefsResult>>

\* the AppenderRef elements of one logger
MaxLoggerRefs == 2

\* the logger plugins registered under PluginTypeLogger
LoggerPluginTypes == {"Logger", "AsyncLogger", "Discard", "Console", "File", "RollingFile"}

\* the appenders of the configuration (cAppenders)
ConfiguredAppenders == {"a1", "a2"}

\* the ref lists a logger may be configured with; a3 is referred to but
\* not configured
LoggerRefLists ==
    UNION {[1..n -> [Ref : ConfiguredAppenders \cup {"a3"},
                     Level : {LevelRange(NoneLevel, MaxLevel),
                              LevelRange(ErrorLevel, MaxLevel)}]] :
           n \in 0..MaxLoggerRefs}

\* the type switch of initAppenderRefs: base and ref are set for
\* *SyncLogger and *AsyncLogger and stay nil otherwise
BaseOf(t) == IF t \in {"Logger", "AsyncLogger"} THEN "LoggerBase" ELSE "nil"

\* initAppenderRefs := func(v reflect.Value, cAppenders map[string]Appender)
\* (*LoggerBase, error): `range ref.AppenderRefs` reads through ref
InitAppenderRefs ==
    /\ initRefsResult = "none"
    /\ IF BaseOf(loggerType) = "nil"
       THEN /\ initRefsResult' = "panicked"
            /\ UNCHANGED boundRefs
       ELSE IF \E i \in 1..Len(loggerRefs) : loggerRefs[i].Ref \notin ConfiguredAppenders
       THEN /\ initRefsResult' = "appender not found"
            /\ UNCHANGED boundRefs
       ELSE /\ initRefsResult' = "ok"
            /\ boundRefs' \in sortByLevel(loggerRefs)
    /\ UNCHANGED <<loggerType, loggerRefs>>

\* no logger is being configured
InitNoIar ==
    /\ loggerType = "Logger"
    /\ loggerRefs = <<>>
    /\ boundRefs = <<>>
    /\ initRefsResult = "idle"

\* every variable of the module
vars == <<pipeVars, refreshVars, rollVars, recVars, sortVars, conVars, rflVars, iarVars>>

\* what a step of the logger pipeline leaves alone
notPipeVars == <<refreshVars, rollVars, recVars, sortVars, conVars, rflVars, iarVars>>

\* what a step of RefreshConfig / Destroy leaves alone
notRefreshVars == <<pipeVars, rollVars, recVars, sortVars, conVars, rflVars, iarVars>>

\* what a step of the rolling file appender leaves alone
notRollVars == <<pipeVars, refreshVars, recVars, sortVars, conVars, rflVars, iarVars>>

\* what a step of a record call leaves alone
notRecVars == <<pipeVars, refreshVars, rollVars, sortVars, conVars, rflVars, iarVars>>

\* what sortByLevel leaves alone
notSortVars == <<pipeVars, refreshVars, rollVars, recVars, conVars, rflVars, iarVars>>

\* what a step of a concurrent Write, rotate or Stop leaves alone
notConVars == <<pipeVars, refreshVars, rollVars, recVars, sortVars, rflVars, iarVars>>

\* what a step of the rolling file logger leaves alone
notRflVars == <<pipeVars, refreshVars, rollVars, recVars, sortVars, conVars, iarVars>>

\* what a step of initAppenderRefs leaves alone
notIarVars == <<pipeVars, refreshVars, rollVars, recVars, sortVars, conVars, rflVars>>

(***************************************************************************)
(* The specifications.                                                     *)
(***************************************************************************)
\* the logger as its plugin configuration built it, before Start
InitLogger ==
    /\ kind \in LoggerKinds
    /\ Level \in LoggerLevels
    /\ IF kind \in {"Sync", "Async"}
       THEN /\ Layout \in BOOLEAN
            /\ \E cfg \in RefConfigs : AppenderRefs \in sortByLevel(cfg)
       ELSE /\ Layout = FALSE
            /\ AppenderRefs = <<>>
    /\ IF kind = "Async"
       THEN /\ BufferSize \in {MinBufferSize - 1, MinBufferSize}
            /\ BufferFullPolicy \in Policies
       ELSE /\ BufferSize = 0
            /\ BufferFullPolicy = BufferFullPolicyBlock
    /\ started = "new"
    /\ buf = <<>>
    /\ closed = FALSE
    /\ workerPc = "none"
    /\ discardCounter = 0
    /\ prodPc = [p \in Producers |-> "idle"]
    /\ prodItem = [p \in Producers |-> NoItem]
    /\ prodCount = [p \in Producers |-> 0]
    /\ stopPc = "idle"
    /\ sink = [a \in SinkNames |-> <<>>]
    /\ released = [i \in ItemIds |-> 0]
    /\ handed = {}
    /\ forwarded = {}
    /\ entered = <<>>
    /\ dispatched = <<>>
    /\ atStop = <<>>
    /\ dropped = {}

\* the package before any RefreshConfig call, with the given tags registered
\* and the given tag table at hand
GlobalAt(tags, table) ==
    /\ init = FALSE
    /\ gLoggers = {}
    /\ gAppenders = {}
    /\ tagRegistry = tags
    /\ loggerMap = {}
    /\ tagLogger = [t \in RegisteredTags \cup RoutedTags |-> NilLogger]
    /\ wrapLogger = [w \in WrapperNames |-> NilLogger]
    /\ refAppender = {}
    /\ running = {}
    /\ stopLog = <<>>
    /\ lastCall = "none"
    /\ refPc = [r \in Refreshers |-> "idle"]
    /\ refCfg = [r \in Refreshers |-> CfgNoAppenders]
    /\ refCalls = [r \in Refreshers |-> 0]
    /\ refResult = [r \in Refreshers |-> "none"]
    /\ refErrArg = [r \in Refreshers |-> ""]
    /\ passed = 0
    /\ lastOk = [r |-> 0, c |-> 0, cfg |-> CfgNoAppenders, tags |-> {}]
    /\ cTable = table
    /\ destroys = 0

\* the package before any RegisterTag, GetLogger or RefreshConfig call
InitGlobal == GlobalAt({}, {})

Init == InitLogger /\ InitGlobal /\ InitRolling /\ InitNoRecord /\ InitNoSort /\ InitNoWriters /\ InitNoRfl /\ InitNoIar

Next ==
    \/ Start /\ UNCHANGED notPipeVars
    \/ \E p \in Producers : \E l \in EventLevels :
          LoggerAppend(p, l) /\ UNCHANGED notPipeVars
    \/ \E p \in Producers : LoggerWrite(p) /\ UNCHANGED notPipeVars
    \/ \E p \in Producers : OnBufferFull(p) /\ UNCHANGED notPipeVars
    \/ \E p \in Producers : DropOldest(p) /\ UNCHANGED notPipeVars
    \/ \E p \in Producers : BlockingSend(p) /\ UNCHANGED notPipeVars
    \/ WorkerStep /\ UNCHANGED notPipeVars
    \/ StopCall /\ UNCHANGED notPipeVars
    \/ StopSend /\ UNCHANGED notPipeVars
    \/ StopWait /\ UNCHANGED notPipeVars

Spec == Init /\ [][Next]_vars

\* An async logger under Block or DiscardOldest whose Stop may be called
\* while producers are inside onBufferFull.  Every goroutine that can run
\* does run eventually: the worker, the producers in onBufferFull and the
\* goroutine in Stop are weakly fair.
InitStop ==
    /\ InitLogger
    /\ kind = "Async"
    /\ Level = LevelRange(NoneLevel, MaxLevel)
    /\ Layout = FALSE
    /\ BufferSize = MinBufferSize
    /\ BufferFullPolicy \in {BufferFullPolicyBlock, BufferFullPolicyDiscardOldest}
    /\ InitGlobal
    /\ InitRolling
    /\ InitNoRecord
    /\ InitNoSort
    /\ InitNoWriters
    /\ InitNoRfl
    /\ InitNoIar

NextStop ==
    \/ Start /\ UNCHANGED notPipeVars
    \/ \E p \in Producers : LoggerAppend(p, InfoLevel) /\ UNCHANGED notPipeVars
    \/ \E p \in Producers : LoggerWrite(p) /\ UNCHANGED notPipeVars
    \/ \E p \in Producers : OnBufferFull(p) /\ UNCHANGED notPipeVars
    \/ \E p \in Producers : DropOldest(p) /\ UNCHANGED notPipeVars
    \/ \E p \in Producers : BlockingSend(p) /\ UNCHANGED notPipeVars
    \/ WorkerStep /\ UNCHANGED notPipeVars
    \/ StopCallEarly /\ UNCHANGED notPipeVars
    \/ StopSend /\ UNCHANGED notPipeVars
    \/ StopWait /\ UNCHANGED notPipeVars

SpecStop ==
    /\ InitStop
    /\ [][NextStop]_vars
    /\ WF_vars(WorkerStep /\ UNCHANGED notPipeVars)
    /\ WF_vars(StopSend /\ UNCHANGED notPipeVars)
    /\ WF_vars(StopWait /\ UNCHANGED notPipeVars)
    /\ \A p \in Producers :
          /\ WF_vars(OnBufferFull(p) /\ UNCHANGED notPipeVars)
          /\ WF_vars(DropOldest(p) /\ UNCHANGED notPipeVars)
          /\ WF_vars(BlockingSend(p) /\ UNCHANGED notPipeVars)

\* An async logger under DiscardOldest whose producers publish for ever, the
\* worker running.  The worker and every producer inside a call are weakly
\* fair; whether an idle producer publishes again is up to the application.
InitBusy ==
    /\ InitLogger
    /\ kind = "Async"
    /\ Level = LevelRange(NoneLevel, MaxLevel)
    /\ Layout = FALSE
    /\ BufferSize = MinBufferSize
    /\ BufferFullPolicy = BufferFullPolicyDiscardOldest
    /\ InitGlobal
    /\ InitRolling
    /\ InitNoRecord
    /\ InitNoSort
    /\ InitNoWriters
    /\ InitNoRfl
    /\ InitNoIar

NextBusy ==
    \/ Start /\ UNCHANGED notPipeVars
    \/ \E p \in Producers : BusyWrite(p) /\ UNCHANGED notPipeVars
    \/ \E p \in Producers : BusyRetrySend(p) /\ UNCHANGED notPipeVars
    \/ \E p \in Producers : BusyDropOldest(p) /\ UNCHANGED notPipeVars
    \/ BusyWorkerStep /\ UNCHANGED notPipeVars

SpecBusy ==
    /\ InitBusy
    /\ [][NextBusy]_vars
    /\ WF_vars(BusyWorkerStep /\ UNCHANGED notPipeVars)
    /\ \A p \in Producers :
          /\ WF_vars(BusyRetrySend(p) /\ UNCHANGED notPipeVars)
          /\ WF_vars(BusyDropOldest(p) /\ UNCHANGED notPipeVars)

\* a logger nobody uses while the configuration is refreshed
InitIdleLogger ==
    /\ InitLogger
    /\ kind = "Discard"
    /\ Level = LevelRange(NoneLevel, MaxLevel)

InitRefresh == InitIdleLogger /\ InitGlobal /\ InitRolling /\ InitNoRecord /\ InitNoSort /\ InitNoWriters /\ InitNoRfl /\ InitNoIar

NextRefresh ==
    \/ \E t \in RegisteredTags : RegisterTag(t) /\ UNCHANGED notRefreshVars
    \/ \E n \in WrapperNames : GetLogger(n) /\ UNCHANGED notRefreshVars
    \/ \E r \in Refreshers : \E cfg \in Configs :
          RefreshBegin(r, cfg) /\ UNCHANGED notRefreshVars
    \/ \E r \in Refreshers : RefreshCheck(r) /\ UNCHANGED notRefreshVars
    \/ \E r \in Refreshers : RefreshSet(r) /\ UNCHANGED notRefreshVars
    \/ \E r \in Refreshers : RefreshBody(r) /\ UNCHANGED notRefreshVars
    \/ Destroy /\ UNCHANGED notRefreshVars

SpecRefresh == InitRefresh /\ [][NextRefresh]_vars

\* the two loggers of the tag tables the binding loop is run on
RouteLoggers == {<<1, 1, "l1">>, <<1, 1, "l2">>}

\* the entries such a table may hold
RouteEntries == {<<"a", "b", "x">>, <<"a", "b", "x", "*">>, <<"a", "b", "*">>,
                 <<"a", "c">>, <<"a", "*">>, <<"*">>}

\* the tag tables cTags: each entry held maps to one logger
Tables ==
    {{<<e, f[e]>> : e \in D} : <<D, f>> \in
        UNION {{<<D, f>> : f \in [D -> RouteLoggers]} : D \in SUBSET RouteEntries}}

\* every tag registered, a tag table built, no tag bound yet
InitRoute ==
    /\ InitIdleLogger
    /\ \E table \in Tables : GlobalAt(RoutedTags, table)
    /\ InitRolling
    /\ InitNoRecord
    /\ InitNoSort
    /\ InitNoWriters
    /\ InitNoRfl
    /\ InitNoIar

NextRoute == \E t \in RoutedTags : BindTag(t) /\ UNCHANGED notRefreshVars

SpecRoute == InitRoute /\ [][NextRoute]_vars

\* the rolling file appender taken alone: the clock, the environment that
\* makes os.OpenFile fail, and the calls Start, Write and Stop
InitRollingFile == InitIdleLogger /\ InitGlobal /\ InitRolling /\ InitNoRecord /\ InitNoSort /\ InitNoWriters /\ InitNoRfl /\ InitNoIar

NextRolling ==
    \/ RollingStart /\ UNCHANGED notRollVars
    \/ Tick /\ UNCHANGED notRollVars
    \/ \E b \in BOOLEAN : SetOpenFails(b) /\ UNCHANGED notRollVars
    \/ RollingWrite /\ UNCHANGED notRollVars
    \/ RollingStop /\ UNCHANGED notRollVars

SpecRolling == InitRollingFile /\ [][NextRolling]_vars

\* the record calls of one goroutine on a tag bound to a SyncLogger
InitRecordCalls ==
    /\ InitIdleLogger /\ InitGlobal /\ InitRolling /\ InitNoSort /\ InitNoWriters
    /\ InitNoRfl /\ InitNoIar
    /\ recLogger \in [Level : RecLevels, AppenderRefs : {RecRefs}]
    /\ IdleRecord

NextRecord ==
    \/ \E api \in Apis : RecordCall(api) /\ UNCHANGED notRecVars
    \/ \E api \in Apis : SinkPublish(api) /\ UNCHANGED notRecVars
    \/ SendToAppender /\ UNCHANGED notRecVars
    \/ SyncReturn /\ UNCHANGED notRecVars

SpecRecord == InitRecordCalls /\ [][NextRecord]_vars

\* The appender refs of one logger, of any configuration, sorted once.
InitSortRefs ==
    /\ InitIdleLogger /\ InitGlobal /\ InitRolling /\ InitNoRecord /\ InitNoWriters
    /\ InitNoRfl /\ InitNoIar
    /\ cfgRefs \in RefLists
    /\ sortedRefs = cfgRefs
    /\ sortPc = "new"

NextSort == SortRefs /\ UNCHANGED notSortVars

SpecSort == InitSortRefs /\ [][NextSort]_vars

\* A rolling file appender written by several goroutines while the clock
\* moves through the rotation slots; Stop may be called at any moment.
InitConcurrent ==
    /\ InitIdleLogger /\ InitGlobal /\ InitRolling /\ InitNoRecord /\ InitNoSort
    /\ InitNoRfl /\ InitNoIar
    /\ clock = 1
    /\ appState = "new"
    /\ filePtr = NoFile
    /\ oldFilePtr = NoFile
    /\ slotTime = 0
    /\ opened = <<>>
    /\ closes = <<>>
    /\ wPc = [w \in Writers |-> "idle"]
    /\ wNow = [w \in Writers |-> 0]
    /\ wOld = [w \in Writers |-> 0]
    /\ wFile = [w \in Writers |-> NoFile]
    /\ wPrev = [w \in Writers |-> NoFile]
    /\ wCalls = [w \in Writers |-> 0]
    /\ writeLog = <<>>
    /\ stopperPc = "idle"

NextConcurrent ==
    \/ ConStart /\ UNCHANGED notConVars
    \/ ConTick /\ UNCHANGED notConVars
    \/ \E w \in Writers : WriteCall(w) /\ UNCHANGED notConVars
    \/ \E w \in Writers : RotateLoad(w) /\ UNCHANGED notConVars
    \/ \E w \in Writers : RotateCas(w) /\ UNCHANGED notConVars
    \/ \E w \in Writers : RotateCloseOld(w) /\ UNCHANGED notConVars
    \/ \E w \in Writers : RotateCreate(w) /\ UNCHANGED notConVars
    \/ \E w \in Writers : RotateLoadCur(w) /\ UNCHANGED notConVars
    \/ \E w \in Writers : RotateStoreOld(w) /\ UNCHANGED notConVars
    \/ \E w \in Writers : RotateStoreFile(w) /\ UNCHANGED notConVars
    \/ \E w \in Writers : RotateStoreTime(w) /\ UNCHANGED notConVars
    \/ \E w \in Writers : WriteLoad(w) /\ UNCHANGED notConVars
    \/ \E w \in Writers : WriteFile(w) /\ UNCHANGED notConVars
    \/ ConStopCall /\ UNCHANGED notConVars
    \/ ConStopOld /\ UNCHANGED notConVars
    \/ ConStopCur /\ UNCHANGED notConVars

SpecConcurrent == InitConcurrent /\ [][NextConcurrent]_vars

\* A rolling file logger of any configuration, started, logged to and stopped.
InitRollingLogger ==
    /\ InitIdleLogger /\ InitGlobal /\ InitRolling /\ InitNoRecord /\ InitNoSort
    /\ InitNoWriters /\ InitNoIar
    /\ rflCfg \in RflConfigs
    /\ rflState = "new"
    /\ rflLogger = "nil"
    /\ rflBuf = "nil"
    /\ rflAppenders = <<>>
    /\ rflOpen = {}
    /\ rflFiles = [f \in {NormalFile, WfFile} |-> <<>>]
    /\ rflDiscards = 0
    /\ rflCalls = <<>>

NextRollingLogger ==
    \/ RflStart /\ UNCHANGED notRflVars
    \/ \E l \in {InfoLevel, WarnLevel, ErrorLevel} : RflAppend(l) /\ UNCHANGED notRflVars
    \/ RflStop /\ UNCHANGED notRflVars

SpecRollingLogger == InitRollingLogger /\ [][NextRollingLogger]_vars

\* initAppenderRefs applied to a logger of any registered type.
InitLoggerTypes ==
    /\ InitIdleLogger /\ InitGlobal /\ InitRolling /\ InitNoRecord /\ InitNoSort
    /\ InitNoWriters /\ InitNoRfl
    /\ loggerType \in LoggerPluginTypes
    /\ loggerRefs \in LoggerRefLists
    /\ boundRefs = <<>>
    /\ initRefsResult = "none"

NextLoggerTypes == InitAppenderRefs /\ UNCHANGED notIarVars

SpecLoggerTypes == InitLoggerTypes /\ [][NextLoggerTypes]_vars

(***************************************************************************)
(* The claims about the asynchronous queue and the level filter (Spec).    *)
(***************************************************************************)
\* C1: for an async logger with the Discard or DiscardOldest policy, once
\* Stop has returned, the number of items the appenders received plus
\* discardCounter equals the number of items passed to Append / Write.
\* Stated for the runs in which every event passed had a level the logger
\* enables, so that the level filter accounts for no difference.
C1_DeliveredPlusDiscardedIsProduced ==
    (/\ kind = "Async"
     /\ BufferFullPolicy \in {BufferFullPolicyDiscard, BufferFullPolicyDiscardOldest}
     /\ stopPc = "done"
     /\ \A x \in handed : x.kind = "event" => Enable(Level, x.level))
    => Cardinality({x \in handed :
                       \E a \in SinkNames : \E i \in 1..Len(sink[a]) :
                          sink[a][i].id = x.id})
         + discardCounter = Cardinality(handed)

\* C2: every event handed to a logger, of any type, has been released to
\* the pool exactly once when the run is over, and never more than once at
\* any time.
C2_ReleasedExactlyOnce ==
    /\ \A i \in ItemIds : released[i] <= 1
    /\ stopPc = "done" =>
          \A x \in handed : x.kind = "event" => released[x.id] = 1

\* C5: when Stop of an async logger has returned, every event or byte
\* slice that was in the queue when Stop was called has been written to an
\* appender.
C5_QueuedAtStopWritten ==
    (kind = "Async" /\ stopPc = "done")
    => \A k \in 1..Len(atStop) :
          \E a \in SinkNames : \E i \in 1..Len(sink[a]) :
             sink[a][i].id = atStop[k].id

\* C6: under every buffer-full policy the worker dispatches the items, and
\* each appender receives them, in the order in which they entered the
\* queue; two items of the same producer are never received in reverse.
C6_DeliveryFollowsQueueOrder ==
    LET in(id) == \E k \in 1..Len(entered) : entered[k].id = id
        pos(id) == CHOOSE k \in 1..Len(entered) : entered[k].id = id
    IN kind = "Async" =>
          /\ \A i, j \in 1..Len(dispatched) :
                i < j => /\ in(dispatched[i].id) /\ in(dispatched[j].id)
                         /\ pos(dispatched[i].id) < pos(dispatched[j].id)
          /\ \A a \in SinkNames : \A i, j \in 1..Len(sink[a]) :
                i < j => /\ in(sink[a][i].id) /\ in(sink[a][j].id)
                         /\ pos(sink[a][i].id) < pos(sink[a][j].id)
                         /\ sink[a][i].id[1] = sink[a][j].id[1]
                               => sink[a][i].id[2] < sink[a][j].id[2]

\* C6, its case: under DiscardOldest an appender has received two items
\* between which, in queue order, an item was dropped.
C6_Witness ==
    LET in(id) == \E k \in 1..Len(entered) : entered[k].id = id
        pos(id) == CHOOSE k \in 1..Len(entered) : entered[k].id = id
    IN /\ kind = "Async"
       /\ BufferFullPolicy = BufferFullPolicyDiscardOldest
       /\ \E a \in SinkNames : \E i, j \in 1..Len(sink[a]) : \E d \in dropped :
             /\ i < j
             /\ in(d.id)
             /\ pos(sink[a][i].id) < pos(d.id)
             /\ pos(d.id) < pos(sink[a][j].id)

\* C7: under the Block policy every item passed to Append / Write of a
\* started async logger has been delivered to an appender by the time the
\* worker has consumed the stop marker.  Stated for the runs in which every
\* event passed had a level the logger enables.
C7_BlockDeliversEveryItem ==
    (/\ kind = "Async"
     /\ BufferFullPolicy = BufferFullPolicyBlock
     /\ stopPc = "done"
     /\ \A x \in handed : x.kind = "event" => Enable(Level, x.level))
    => \A x \in handed :
          \E a \in SinkNames : \E i \in 1..Len(sink[a]) : sink[a][i].id = x.id

\* C8: for an async logger with the Block policy discardCounter is 0 in
\* every reachable state.
C8_BlockNeverDiscards ==
    (kind = "Async" /\ BufferFullPolicy = BufferFullPolicyBlock) => discardCounter = 0

\* C8, its case: under Block, producers that passed both events and byte
\* slices, one of them waiting on the full queue.
C8_Witness ==
    /\ kind = "Async"
    /\ BufferFullPolicy = BufferFullPolicyBlock
    /\ \E p \in Producers : prodPc[p] = "send" /\ ~ChanReady(buf)
    /\ \E x, y \in handed : x.kind = "event" /\ y.kind = "bytes"

\* C9: a producer waits on the queue only under the Block policy, and gets
\* there only from a call that found the queue full; under Discard the call
\* that found the queue full returns in its next step, the new item dropped,
\* the queue untouched and discardCounter one higher.
C9_SuspendOnlyUnderBlock ==
    /\ [](\A p \in Producers :
             prodPc[p] = "send" => BufferFullPolicy = BufferFullPolicyBlock)
    /\ [][\A p \in Producers :
             /\ (prodPc[p] = "idle" /\ prodPc'[p] = "full") => ~ChanReady(buf)
             /\ (prodPc[p] /= "send" /\ prodPc'[p] = "send")
                   => prodPc[p] = "full"
             /\ (/\ BufferFullPolicy = BufferFullPolicyDiscard
                 /\ prodPc[p] = "full"
                 /\ prodPc'[p] /= "full")
                => /\ prodPc'[p] = "idle"
                   /\ discardCounter' = discardCounter + 1
                   /\ buf' = buf
                   /\ prodItem[p] \in dropped'
                   /\ \A k \in 1..Len(entered') : entered'[k] /= prodItem[p]]_vars

\* C9, its case: under Discard a call found the queue full and has returned
C9_Witness ==
    /\ kind = "Async"
    /\ BufferFullPolicy = BufferFullPolicyDiscard
    /\ discardCounter = 1
    /\ \E x \in dropped : \E p \in Producers :
          x.id[1] = p /\ prodPc[p] = "idle" /\ Len(buf) = QueueCap

\* C10: an event of level L passed to a logger with range R goes on towards
\* the appenders iff R.MinLevel <= L < R.MaxLevel.  For the synchronous
\* loggers "goes on" is: an appender received it; for the asynchronous one: it
\* was offered to the queue.  (The DiscardLogger's appender is the no-op.)
C10_ForwardedIffEnabled ==
    kind /= "Discard" =>
       \A x \in handed : x.kind = "event" =>
          LET inRange == Level.MinLevel <= x.level /\ x.level < Level.MaxLevel
              received == \E a \in SinkNames : \E i \in 1..Len(sink[a]) :
                             sink[a][i].id = x.id
              offered == \/ \E k \in 1..Len(entered) : entered[k] = x
                         \/ x \in dropped
                         \/ \E p \in Producers : prodItem[p] = x
          IN /\ x.id \in forwarded <=> inRange
             /\ kind = "Async" => (offered <=> inRange)
             /\ kind /= "Async" => (received <=> inRange)

\* C10, its case: a synchronous logger has been passed an event at the
\* lower bound of its range, which an appender received, and one at the
\* upper bound, which none did.
C10_Witness ==
    /\ kind = "Sync"
    /\ \E x, y \in handed :
          /\ x.kind = "event" /\ x.level = Level.MinLevel /\ x.id \in forwarded
          /\ \E a \in SinkNames : \E i \in 1..Len(sink[a]) : sink[a][i].id = x.id
          /\ y.kind = "event" /\ y.level = Level.MaxLevel /\ y.id \notin forwarded

\* C11: the raw bytes passed to Write of a logger with appender refs are
\* handed unchanged, once each and in write order, to the appenders its
\* refs name: at once by a synchronous logger, by the time Stop has
\* returned by an asynchronous one (what a buffer-full policy dropped apart).
C11_RawBytesReachAppenders ==
    (kind \in {"Sync", "Async"} /\ (kind = "Async" => stopPc = "done"))
    => \A x \in handed : (x.kind = "bytes" /\ x \notin dropped) =>
          \A k \in 1..Len(AppenderRefs) :
             LET got == sink[AppenderRefs[k].Ref]
             IN /\ Cardinality({i \in 1..Len(got) : got[i] = RawBytes(x)}) = 1
                /\ \A i, j \in 1..Len(got) :
                      (/\ got[j] = RawBytes(x)
                       /\ got[i].form = "raw"
                       /\ got[i].id[1] = x.id[1]
                       /\ got[i].id[2] < x.id[2]) => i < j

(***************************************************************************)
(* The claims about RefreshConfig (SpecRefresh).                           *)
(***************************************************************************)
\* C3: among the RefreshConfig calls made without a Destroy, at most one
\* gets past the check of the initialised flag.
C3_AtMostOneRefreshPasses == destroys = 0 => passed <= 1

\* C4: after a RefreshConfig call that failed with a tag-validation error,
\* no other call and no Destroy having been made, the global state is what
\* it was before: the flag false, no tag and no wrapper bound, the lists of
\* live loggers and appenders empty.
C4_FailedRefreshMutatesNothing ==
    (/\ destroys = 0
     /\ passed = 1
     /\ \E r \in Refreshers :
           /\ refPc[r] = "done" /\ refResult[r] = "tag is invalid"
           /\ \A q \in Refreshers \ {r} : refPc[q] = "idle" /\ refResult[q] = "none")
    => /\ init = FALSE
       /\ gLoggers = {} /\ gAppenders = {}
       /\ \A t \in RegisteredTags : tagLogger[t] = NilLogger
       /\ \A w \in WrapperNames : wrapLogger[w] = NilLogger

C15_TagEntryHasOneLogger ==
    \A r \in Refreshers :
       (refPc[r] = "done" /\ refResult[r] \notin
           {"none", "log refresh already done", "appenders section not found"})
       => LET cfg == refCfg[r]
              n == Len(cfg.loggers)
              shared == \E i, j \in 1..n :
                           /\ i /= j
                           /\ \E k \in 1..Len(cfg.loggers[i].tags) :
                              \E m \in 1..Len(cfg.loggers[j].tags) :
                                 cfg.loggers[i].tags[k] = cfg.loggers[j].tags[m]
              sound == \A i \in 1..n :
                          /\ MissingRefs(cfg, cfg.loggers[i]) = {}
                          /\ cfg.loggers[i].name /= RootLoggerName
                          /\ TagListError(cfg.loggers[i].tags) = "ok"
              table == Built(r, refCalls[r], cfg).cTags
          IN /\ shared => refResult[r] /= "ok"
             /\ (shared /\ sound) => refResult[r] = "tag already config"
             /\ refResult[r] = "ok" =>
                   /\ \A x, y \in table : x[1] = y[1] => x = y
                   /\ \A i \in 1..n : \A k \in 1..Len(cfg.loggers[i].tags) :
                         <<cfg.loggers[i].tags[k], <<r, refCalls[r], cfg.loggers[i].name>>>>
                            \in table

\* one call failed on a tag declared by two loggers, after a logger that
\* declares the same entry twice, and another call returned nil with a
\* table of two entries
C15_Witness ==
    /\ \E r \in Refreshers :
          /\ refPc[r] = "done" /\ refResult[r] = "tag already config"
          /\ refErrArg[r] = "other"
    /\ \E r \in Refreshers :
          /\ refPc[r] = "done" /\ refResult[r] = "ok"
          /\ Cardinality(Built(r, refCalls[r], refCfg[r]).cTags) = 2

\* C16: when a RefreshConfig call has returned nil, every AppenderRef of
\* every logger of its configuration holds the appender the call created
\* under the ref's name, and no other; a call whose configuration has a ref
\* that names no configured appender returns an error, and
\* "appender <name> not found" with that name when the ref is met first.
C16_AppenderRefsBound ==
    \A r \in Refreshers :
       (refPc[r] = "done" /\ refResult[r] \notin
           {"none", "log refresh already done", "appenders section not found"})
       => LET cfg == refCfg[r]
              c == refCalls[r]
              n == Len(cfg.loggers)
              miss1 == MissingRefs(cfg, cfg.loggers[1])
          IN /\ refResult[r] = "ok" =>
                   \A i \in 1..n : \A k \in 1..Len(cfg.loggers[i].refs) :
                      LET inst == <<r, c, cfg.loggers[i].name>>
                          ref == cfg.loggers[i].refs[k]
                      IN /\ <<r, c, ref>> \in CAppenders(r, c, cfg)
                         /\ <<r, c, ref>> \in gAppenders \/ destroys > 0
                         /\ \A b \in refAppender :
                               (b[1] = inst /\ b[2] = ref) => b[3] = <<r, c, ref>>
                         /\ \E b \in refAppender : b[1] = inst /\ b[2] = ref
             /\ (\E i \in 1..n : MissingRefs(cfg, cfg.loggers[i]) /= {})
                   => refResult[r] /= "ok"
             /\ (n > 0 /\ miss1 /= {}) =>
                   /\ refResult[r] = "appender not found"
                   /\ \E k \in miss1 : /\ refErrArg[r] = cfg.loggers[1].refs[k]
                                       /\ \A j \in miss1 : k <= j

\* one call returned nil for a configuration whose loggers hold three refs,
\* another failed on the ref a9
C16_Witness ==
    /\ \E r \in Refreshers :
          /\ refPc[r] = "done" /\ refResult[r] = "ok"
          /\ Cardinality({b \in refAppender : b[1][1] = r /\ b[1][2] = refCalls[r]}) = 3
    /\ \E r \in Refreshers :
          /\ refPc[r] = "done" /\ refResult[r] = "appender not found"
          /\ refErrArg[r] = "a9"

\* C17: while global.init is true, and so from a RefreshConfig call that
\* returned nil until a Destroy, a call of RegisterTag or GetLogger panics
\* and adds no entry to tagRegistry or loggerMap.
C17_NoRegistrationOnceRefreshed ==
    /\ []((lastOk.r /= 0 /\ destroys = 0) => init)
    /\ [][init => /\ tagRegistry' = tagRegistry
                  /\ loggerMap' = loggerMap
                  /\ lastCall' /= lastCall => lastCall' = "panicked"]_vars

\* after a refresh that returned nil, and before any Destroy, a call panicked
\* although earlier calls had registered a tag and a wrapper
C17_Witness ==
    /\ lastOk.r /= 0 /\ destroys = 0
    /\ lastCall = "panicked"
    /\ tagRegistry /= {} /\ loggerMap /= {}

\* C18: a Destroy made while global.init is true stops every logger of
\* global.loggers, and only then the appenders of global.appenders: in the
\* order of its Stop calls every logger precedes every appender, none of
\* them is left running, and the flag is false when it returns.
C18_LoggersStopBeforeAppenders ==
    [][(destroys' /= destroys /\ init) =>
          /\ \A l \in gLoggers : \E i \in 1..Len(stopLog') :
                stopLog'[i] = [kind |-> "logger", inst |-> l]
          /\ \A a \in gAppenders : \E i \in 1..Len(stopLog') :
                stopLog'[i] = [kind |-> "appender", inst |-> a]
          /\ Len(stopLog') = Cardinality(gLoggers) + Cardinality(gAppenders)
          /\ \A i, j \in 1..Len(stopLog') :
                (stopLog'[i].kind = "logger" /\ stopLog'[j].kind = "appender") => i < j
          /\ running' \cap (gLoggers \cup gAppenders) = {}
          /\ init' = FALSE]_vars

\* a Destroy stopped two loggers and two appenders
C18_Witness ==
    /\ ~init /\ destroys > 0
    /\ Cardinality({i \in 1..Len(stopLog) : stopLog[i].kind = "logger"}) = 2
    /\ Cardinality({i \in 1..Len(stopLog) : stopLog[i].kind = "appender"}) = 2

\* C19: a Destroy made while global.init is false, before any RefreshConfig
\* call or right after another Destroy, changes nothing: not the flag, the
\* lists, the registries, the bindings, nor what is running.
C19_DestroyUninitialisedIsNoOp ==
    [][(destroys' /= destroys /\ ~init) =>
          UNCHANGED <<init, gLoggers, gAppenders, tagRegistry, loggerMap,
                      tagLogger, wrapLogger, refAppender, running, stopLog>>]_vars

\* two Destroy calls were made and RefreshConfig set the flag once: one of
\* the two found it false
C19_Witness ==
    /\ destroys = 2 /\ passed = 1 /\ ~init
    /\ stopLog /= <<>>
    /\ \A r \in Refreshers : refPc[r] \in {"idle", "done"}

C14_PatternCoversItsSubtree ==
    LET has(e) == \E x \in cTable : x[1] = e
        at(e) == (CHOOSE x \in cTable : x[1] = e)[2]
        abx == <<"a", "b", "x">>
        abxy == <<"a", "b", "x", "y">>
        ac == <<"a", "c">>
        pat == <<"a", "b", "*">>
    IN /\ (has(pat) /\ tagLogger[abx] /= NilLogger /\ ~has(abx))
             => tagLogger[abx] = at(pat)
       /\ (has(pat) /\ tagLogger[abxy] /= NilLogger /\ ~has(<<"a", "b", "x", "*">>))
             => tagLogger[abxy] = at(pat)
       /\ (tagLogger[ac] /= NilLogger /\ ~has(ac) /\ ~has(<<"a", "*">>))
             => tagLogger[ac] = DefaultLogger

\* the three tags were bound from a table that holds _a_b_* and no entry
\* more specific for any of them
C14_Witness ==
    /\ \E x \in cTable : x[1] = <<"a", "b", "*">>
    /\ \A x \in cTable :
          x[1] \notin {<<"a", "b", "x">>, <<"a", "b", "x", "*">>, <<"a", "c">>, <<"a", "*">>}
    /\ tagLogger[<<"a", "b", "x">>] /= NilLogger
    /\ tagLogger[<<"a", "b", "x">>] = tagLogger[<<"a", "b", "x", "y">>]
    /\ tagLogger[<<"a", "c">>] = DefaultLogger

\* C21: when opening the new file fails during a rotation, the appender
\* prints the failure to standard error and keeps running, and every write
\* issued while the failure lasts (until a rotation succeeds) is written to
\* no file.
C21_WritesDroppedWhileRotationFails ==
    /\ rotFailing => stderrLines > 0 /\ rollStarted /= "failed"
    /\ \A i \in 1..Len(written) : written[i].failing => written[i].to = NoFile


\* C22: synchronous publish is re-entrant: while a SyncLogger.Append call is
\* in progress, also one made by an appender from inside another Append call
\* on the same logger, the goroutine can always take its next step (no lock
\* is waited for), so the call never deadlocks.
C22_SyncPublishNeverBlocks ==
    stack /= <<>> =>
        ENABLED ((\E api \in Apis : SinkPublish(api)) \/ SendToAppender \/ SyncReturn)

\* C22 witness: an appender published from inside Append, and the event of
\* the inner call reached an appender while the outer call was in progress.
C22_Witness ==
    /\ Len(stack) >= 2
    /\ \E i \in 1..Len(recSink) : recSink[i].id = stack[2].id

\* C23: a record call whose level the tag's logger does not enable takes no
\* event from the pool and invokes no lazy field callback; a Trace / Debug
\* call invokes its callback exactly when the level is enabled.
C23_DisabledCallTakesNothing ==
    [][Len(recCalls') > Len(recCalls) =>
         LET api == recCalls'[Len(recCalls')]
             enabled == Enable(recLogger.Level, ApiLevel(api))
         IN /\ ~enabled => taken' = taken /\ fnCalls' = fnCalls
            /\ enabled => taken' = taken + 1
            /\ IsLazy(api) => (fnCalls' = fnCalls + 1 <=> enabled)
            /\ ~IsLazy(api) => fnCalls' = fnCalls]_vars

\* C23 witness: under a logger enabled from DEBUG on, a Trace call and a
\* Debug call were made: one callback ran and one event was taken for them.
C23_Witness ==
    /\ recLogger.Level.MinLevel = DebugLevel
    /\ recCalls = <<"Trace", "Debug">>
    /\ fnCalls = 1
    /\ taken = 1

\* C24: over any sequence of RefreshConfig and Destroy calls, Stop is invoked
\* exactly once on every async logger that was started: Destroy stops only
\* instances that are started and not yet stopped (never twice), and once
\* Destroy has returned with no call in progress, no started async logger is
\* left that was never stopped (never zero times).
C24_AsyncStoppedExactlyOnce ==
    [][LET IsAsync(inst) ==
               /\ inst /= DefaultLogger
               /\ inst[2] = refCalls[inst[1]]
               /\ \E i \in 1..Len(refCfg[inst[1]].loggers) :
                      /\ refCfg[inst[1]].loggers[i].name = inst[3]
                      /\ refCfg[inst[1]].loggers[i].type = "AsyncLogger"
           Settled ==
               /\ ~init
               /\ destroys > 0
     /\ gLoggers = {} /\ gAppenders = {}
               /\ gLoggers = {} /\ gAppenders = {}
               /\ passed = 1
               /\ \A r \in Refreshers : refPc[r] \in {"idle", "done"}
       IN /\ (destroys' > destroys /\ init) =>
                \A i \in 1..Len(stopLog') :
                    (stopLog'[i].kind = "logger" /\ stopLog'[i].inst /= DefaultLogger)
                        => stopLog'[i].inst \in running
          /\ (Settled => \A inst \in running : ~IsAsync(inst))']_vars

\* C29: when RefreshConfig returns the error of a failed Start, every
\* component that call started has been stopped, at the latest when a later
\* Destroy has returned: nothing started is left running out of Destroy's
\* reach.
C29_FailedRefreshLeavesNothingRunning ==
    (/\ ~init
     /\ destroys > 0
     /\ gLoggers = {} /\ gAppenders = {}
     /\ passed = 1
     /\ \A r \in Refreshers : refPc[r] \in {"idle", "done"}
     /\ \E r \in Refreshers :
            refResult[r] = "logger start error << bufferSize is too small")
      => running = {}

\* C30: after Destroy has returned, no registered tag and no logger wrapper
\* is still bound to a logger that Destroy stopped.
C30_NothingRoutesToStoppedLogger ==
    (/\ ~init
     /\ destroys > 0
     /\ gLoggers = {} /\ gAppenders = {}
     /\ passed = 1
     /\ \A r \in Refreshers : refPc[r] \in {"idle", "done"})
      => \A i \in 1..Len(stopLog) :
            (stopLog[i].kind = "logger" /\ stopLog[i].inst /= DefaultLogger)
                => /\ \A t \in tagRegistry : tagLogger[t] /= stopLog[i].inst
                   /\ \A w \in loggerMap : wrapLogger[w] /= stopLog[i].inst

\* C26: under DiscardOldest a Publish / Write call that found the queue full
\* returns only on the step that enqueues its item (the item is the newest of
\* the queue and was not dropped by the call); every removal a producer makes
\* takes the item at the head of the queue at that moment and raises
\* discardCounter by exactly one.
C26_DiscardOldestEnqueuesNew ==
    [][(kind = "Async" /\ BufferFullPolicy = BufferFullPolicyDiscardOldest) =>
        /\ \A p \in Producers :
              (prodPc[p] \in {"full", "drop"} /\ prodPc'[p] = "idle") =>
                 /\ buf' /= <<>>
                 /\ buf'[Len(buf')] = prodItem[p]
                 /\ entered' = Append(entered, prodItem[p])
                 /\ prodItem[p] \notin dropped'
        /\ (dropped' /= dropped \/ discardCounter' /= discardCounter) =>
              /\ buf /= <<>>
              /\ buf' = Tail(buf)
              /\ dropped' = dropped \cup {Head(buf)}
              /\ Head(buf) \notin dropped
              /\ discardCounter' = discardCounter + 1]_vars

\* C26 witness: under DiscardOldest the producers removed two items from the
\* full queue and every call has returned.
C26_Witness ==
    /\ kind = "Async"
    /\ BufferFullPolicy = BufferFullPolicyDiscardOldest
    /\ discardCounter = 2
    /\ \A p \in Producers : prodPc[p] = "idle" /\ prodCount[p] = MaxOps

\* C28: an item of the queue has one owner at a time: every item that
\* entered the queue is either still queued, or was dequeued by the worker,
\* or was dequeued by a DiscardOldest producer, exactly one of the three and
\* once; the producer that enqueued it holds it no longer; an event among
\* them is released to the pool at most once, and only after its dequeue.
C28_QueuedItemHasOneOwner ==
    kind = "Async" =>
        \A i \in 1..Len(entered) :
            LET v == entered[i]
                queued == Cardinality({k \in 1..Len(buf) : buf[k] = v})
                byWorker == Cardinality({k \in 1..Len(dispatched) : dispatched[k] = v})
                byProducer == IF v \in dropped THEN 1 ELSE 0
            IN /\ queued + byWorker + byProducer = 1
               /\ \A p \in Producers : prodItem[p] /= v
               /\ \A j \in 1..Len(entered) : entered[j] = v => j = i
               /\ v.kind = "event" => released[v.id] = (IF queued = 1 THEN 0 ELSE 1)

\* C28 witness: of the items that entered the queue, one was dequeued by a
\* producer, one by the worker, and one is still queued.
C28_Witness ==
    /\ kind = "Async"
    /\ dropped /= {}
    /\ dispatched /= <<>>
    /\ buf /= <<>>
    /\ workerPc = "run"

\* C25: AsyncLogger.Stop eventually returns in every execution, also when
\* it is called while producers are publishing on a full queue under Block
\* or DiscardOldest: once Stop is at its send of the stop event, the worker
\* eventually receives the event and exits, and Stop returns.
C25_StopEventuallyReturns ==
    (stopPc \in {"send", "wait"}) ~> (stopPc = "done")

\* C27: under DiscardOldest every Publish / Write call eventually returns:
\* a producer inside the drop-then-send loop eventually leaves it, whatever
\* the other producers do, the worker running.
C27_DiscardOldestCallReturns ==
    \A p \in Producers : (prodPc[p] \in {"full", "drop"}) ~> (prodPc[p] = "idle")

\* C31: each Tag's logger pointer is written exactly once, during refresh,
\* and never written again afterwards: once a tag's logger is set, no step
\* changes it, so every later read observes the same logger.
C31_TagLoggerWrittenOnce ==
    [][\A t \in RegisteredTags :
          tagLogger[t] /= NilLogger => tagLogger'[t] = tagLogger[t]]_vars

\* C32: when a logger with appender refs dispatches an enabled event e, each
\* of its refs receives e exactly once if the ref's level range enables
\* e.level and not at all otherwise; with a layout the refs receive the
\* event rendered once to bytes (Write), without one the event itself
\* (Append).
C32_EachRefReceivesOnce ==
    kind \in {"Sync", "Async"} =>
       \A x \in handed : x.kind = "event" =>
          LET sent == IF kind = "Sync" THEN x.id \in forwarded
                      ELSE \E k \in 1..Len(dispatched) : dispatched[k] = x
              form == IF Layout THEN ToBytes(x) ELSE [id |-> x.id, form |-> "event"]
          IN sent =>
                \A k \in 1..Len(AppenderRefs) :
                   LET got == sink[AppenderRefs[k].Ref]
                       at == {i \in 1..Len(got) : got[i].id = x.id}
                   IN IF Enable(AppenderRefs[k].Level, x.level)
                      THEN /\ Cardinality(at) = 1
                           /\ \A i \in at : got[i] = form
                      ELSE at = {}

\* C32 witness: an asynchronous logger with a layout has dispatched an ERROR
\* event, which the ref of a2 received as bytes and the ref of a1 did not,
\* and an event below ERROR, which the ref of a1 received as bytes.
C32_Witness ==
    /\ kind = "Async"
    /\ Layout
    /\ \E i, j \in 1..Len(dispatched) :
          /\ dispatched[i].kind = "event" /\ dispatched[i].level = ErrorLevel
          /\ dispatched[j].kind = "event" /\ dispatched[j].level < ErrorLevel
          /\ \E k \in 1..Len(sink["a2"]) : sink["a2"][k] = ToBytes(dispatched[i])
          /\ \A k \in 1..Len(sink["a1"]) : sink["a1"][k].id /= dispatched[i].id
          /\ \E k \in 1..Len(sink["a1"]) : sink["a1"][k] = ToBytes(dispatched[j])

\* C33: after refresh the appender refs of a logger are ordered by
\* non-decreasing level.min, and every ref whose upper bound was MAX and
\* that has a successor has the successor's lower bound as its upper bound
\* (the other bounds are as configured), so that the chained ranges are
\* adjacent and no level is enabled by two chained refs.
C33_RefsSortedAndChained ==
    sortPc = "sorted" =>
       LET n == Len(sortedRefs)
           was(i) == CHOOSE k \in 1..Len(cfgRefs) : cfgRefs[k].Ref = sortedRefs[i].Ref
           chained(i) == cfgRefs[was(i)].Level.MaxLevel = MaxLevel
       IN /\ n = Len(cfgRefs)
          /\ \A k \in 1..n : \E i \in 1..n : sortedRefs[i].Ref = cfgRefs[k].Ref
          /\ \A i, j \in 1..n :
                i < j => sortedRefs[i].Level.MinLevel <= sortedRefs[j].Level.MinLevel
          /\ \A i \in 1..n :
                /\ sortedRefs[i].Level.MinLevel = cfgRefs[was(i)].Level.MinLevel
                /\ sortedRefs[i].Level.MaxLevel =
                      IF chained(i) /\ i < n
                      THEN sortedRefs[i + 1].Level.MinLevel
                      ELSE cfgRefs[was(i)].Level.MaxLevel
          /\ \A i, j \in 1..n : \A l \in NoneLevel..MaxLevel :
                (i /= j /\ chained(i) /\ chained(j))
                   => ~(Enable(sortedRefs[i].Level, l) /\ Enable(sortedRefs[j].Level, l))

\* C33 witness: three refs configured out of order, all with the upper bound
\* MAX, came out sorted with the first two cut at their successors.
C33_Witness ==
    /\ sortPc = "sorted"
    /\ Len(cfgRefs) = 3
    /\ \A k \in 1..3 : cfgRefs[k].Level.MaxLevel = MaxLevel
    /\ cfgRefs[1].Level.MinLevel = ErrorLevel
    /\ cfgRefs[3].Level.MinLevel = NoneLevel
    /\ sortedRefs[1] = [Ref |-> "a3", Level |-> LevelRange(NoneLevel, InfoLevel)]
    /\ sortedRefs[2] = [Ref |-> "a2", Level |-> LevelRange(InfoLevel, ErrorLevel)]
    /\ sortedRefs[3] = [Ref |-> "a1", Level |-> LevelRange(ErrorLevel, MaxLevel)]

\* C34: RefreshConfig starts all appenders before any logger, each group in
\* the order in which the configuration enumerates it, and the first Start
\* that fails ends the call with that error, no later component being
\* started: when a call (the only one made) has returned the Start error of
\* a logger, every appender and every logger enumerated before that logger
\* is started, and no logger enumerated after it.
C34_StartedInEnumerationOrder ==
    \A r \in Refreshers :
       (/\ refPc[r] = "done"
        /\ refResult[r] = "logger start error << bufferSize is too small"
        /\ passed = 1
        /\ destroys = 0)
       => LET cfg == refCfg[r]
              c == refCalls[r]
              k == CHOOSE i \in 1..Len(cfg.loggers) : cfg.loggers[i].name = refErrArg[r]
          IN /\ CAppenders(r, c, cfg) \subseteq running
             /\ \A i \in 1..Len(cfg.loggers) :
                   /\ i < k => <<r, c, cfg.loggers[i].name>> \in running
                   /\ i >= k => <<r, c, cfg.loggers[i].name>> \notin running

\* C35: a Destroy made while the initialised flag is set clears it, and
\* after that, as long as the flag is clear, the package is back in the
\* registration phase: a RefreshConfig call that reads the flag is not
\* rejected as a duplicate, and RegisterTag and GetLogger return instead of
\* panicking.
C35_DestroyReopensRegistration ==
    [][/\ (destroys' = destroys + 1 /\ init) => ~init'
       /\ (destroys >= 1 /\ ~init) =>
             /\ \A r \in Refreshers :
                   (refPc[r] = "check" /\ refPc'[r] /= "check") => refPc'[r] = "set"
             /\ lastCall' = "panicked" => lastCall = "panicked"
             /\ tagRegistry' /= tagRegistry => lastCall' = "returned"
             /\ loggerMap' /= loggerMap => lastCall' = "returned"]_vars

\* C35 witness: the first caller's refresh returned nil, Destroy stopped its
\* loggers, a tag and a wrapper were registered after that, and the second
\* caller's refresh was accepted and returned nil over them.
C35_Witness ==
    /\ refResult[1] = "ok"
    /\ refResult[2] = "ok"
    /\ destroys = 1
    /\ init
    /\ \E i \in 1..Len(stopLog) : stopLog[i].inst[1] = 1
    /\ \A l \in gLoggers : l = DefaultLogger \/ l[1] = 2
    /\ lastCall = "returned"
    /\ lastOk.r = 2
    /\ lastOk.tags = RegisteredTags
    /\ \A t \in RegisteredTags : tagLogger[t] = DefaultLogger \/ tagLogger[t][1] = 2

\* C36: when concurrent writers see that the rotation slot has advanced,
\* exactly one of them, the winner of the compare-and-swap on the slot time,
\* rotates for that slot: the file of a slot is opened once, and a file is
\* closed once (Stop not being called).
C36_OneRotationPerSlot ==
    stopperPc = "idle" =>
       /\ \A i, j \in 1..Len(opened) : opened[i].slot = opened[j].slot => i = j
       /\ \A i, j \in 1..Len(closes) : closes[i] = closes[j] => i = j

\* C37: under concurrent Write calls and rotations no Write writes to a file
\* handle that a rotation or Stop has already closed.
C37_NoWriteToClosedFile ==
    \A i \in 1..Len(writeLog) : ~writeLog[i].closed


\* C38: a RollingFileLogger configured with async=true starts its inner
\* AsyncLogger when it is started (the queue is allocated), so that no Append
\* on it blocks or spins forever and no enabled event is dropped for want of
\* a queue.
C38_AsyncInnerLoggerStarted ==
    (rflState = "started" /\ rflCfg.AsyncWrite) =>
        /\ rflLogger = "AsyncLogger"
        /\ rflBuf /= "nil"
        /\ \A i \in 1..Len(rflCalls) :
              rflCalls[i].outcome \notin {"blocked", "spinning", "discarded"}

\* C39: each event the logger's level range enables is written to exactly
\* one file: with separate=true to the normal file below WARN and to the .wf
\* file from WARN on, with separate=false to the normal file.
C39_EachEventInItsFile ==
    \A i \in 1..Len(rflCalls) :
        Enable(rflCfg.Level, rflCalls[i].level) =>
            LET target == IF rflCfg.Separate /\ rflCalls[i].level >= WarnLevel
                          THEN WfFile ELSE NormalFile
                lines(f) == {k \in 1..Len(rflFiles[f]) :
                                rflFiles[f][k].id = rflCalls[i].id}
            IN /\ {f \in DOMAIN rflFiles : lines(f) /= {}} = {target}
               /\ Cardinality(lines(target)) = 1


\* C40: RefreshConfig handles every registered logger plugin type: for each
\* it obtains a non-nil logger base and ref list, so that initAppenderRefs
\* returns the base or an error and never dereferences nil.
C40_EveryLoggerTypeHandled ==
    initRefsResult \notin {"idle", "none"} =>
        /\ BaseOf(loggerType) /= "nil"
        /\ initRefsResult \in {"ok", "appender not found"}

====
